---- MODULE Spec2Model ----
(***************************************************************************)
(* Model of the state/math kernel of the complexity dashboard:             *)
(* ComplexityVector and ComplexityState (js/complexity-state.js),          *)
(* ComplexityMath and the slider callback of InputPanel                    *)
(* (js/complexity-components.js), CycleAnimator                            *)
(* (complexity-visualizations.js).                                         *)
(*                                                                         *)
(* Numbers.  A vector component is a real in [0,1]; it is modelled as an   *)
(* integer number of hundredths (One = 1.00).  A value that is not a       *)
(* number (NaN, a string, null) is the sentinel NotANumber.  Weights are   *)
(* kept as exact fractions num[i]/den, a scalar as the fraction n/d, so    *)
(* that no rounding is introduced by the model.                            *)
(* The vectors given to dominates and computeParetoFrontier are in a finer *)
(* unit (FineOne = 1.00), in which EPSILON is ten units, so that           *)
(* differences below EPSILON can be told apart.                            *)
(*                                                                         *)
(* Time.  Date.now() is the variable now; every handler of the state reads *)
(* it once and the clock then advances by one tick.  An animator call that *)
(* reaches no method of the state leaves the clock alone.                  *)
(***************************************************************************)
EXTENDS Integers, Sequences, FiniteSets, TLC

VARIABLES
    vector,            \* this.vector.data
    history,           \* this.history
    maxHistory,        \* this.maxHistory
    weights,           \* this.weights
    deltas,            \* this.deltas
    observers,         \* this.observers (callbacks, in subscription order)
    lastOperation,     \* this.lastOperation
    sessionStartTime,  \* this.sessionStartTime
    operationCount,    \* this.operationCount
    config,            \* the config object the constructor was given
    now,               \* Date.now()
    registrations,     \* for every entry of this.observers, the subscribe call that made it
    issued,            \* the unsubscribe functions returned by subscribe()
    lastCall,          \* the last method called, its arguments and its outcome
    delivered,         \* the observer invocations made by the last call, in order
    run,               \* snapshots pushed by the updateVector calls made since construction
    anim,              \* the CycleAnimator attached to the state
    cycle,             \* a call of ComplexityMath.generateCycle: its arguments and result
    math,              \* a call of another ComplexityMath function: its arguments and result
    ui,                \* what InputPanel and VectorDisplay show, and the debounce timer
    streak             \* the states before the updates that no undo has taken back yet

vars == <<vector, history, maxHistory, weights, deltas, observers, lastOperation,
          sessionStartTime, operationCount, config, now, registrations, issued,
          lastCall, delivered, run, anim, cycle, math, ui, streak>>

----------------------------------------------------------------------------
(* Bounds of the model *)

MaxTime == 4            \* number of handler calls explored
MaxHistoryCfg == 1      \* the positive config.maxHistory explored
MaxObservers == 3       \* largest number of registrations
MaxStarts == 2          \* number of accepted CycleAnimator.start() calls explored
MaxStates == 4          \* longest list given to computeParetoFrontier
MaxInputs == 3          \* number of slider input events explored
MaxRound == 5           \* number of update and undo calls explored in a row

(* Program constants *)

One == 100                          \* 1.0 in hundredths
NotANumber == 0 - 1000              \* a value for which typeof v !== 'number' || isNaN(v)
Undefined == 0 - 1                  \* a missing number-valued field
Null == 0 - 2                       \* null
PerEpsilon == 1000000               \* 1 / EPSILON, EPSILON = 1e-6
PerThreshold == 100                  \* 1 / SIGNAL_LOSS_THRESHOLD, SIGNAL_LOSS_THRESHOLD = 0.01
FineOne == 10000000                 \* 1.0 in the fine unit of the Pareto vectors
FineEpsilon == FineOne \div PerEpsilon   \* EPSILON in the fine unit
MAX_HISTORY == 100
DEFAULT_VECTOR == <<50, 50, 50, 50>>
DEFAULT_WEIGHTS == [num |-> <<1, 1, 1, 1>>, den |-> 4]    \* [0.25, 0.25, 0.25, 0.25]
DEFAULT_DELTAS == [alg |-> 20, info |-> 20, dyn |-> 15, geom |-> 30]
Keys == <<"alg", "info", "dyn", "geom">>

\* the observer callbacks of the session
Callbacks == {1, 2}
Behaviours == {"return", "throw", "unsubscribe"}

\* the callbacks the two UI components subscribe in their constructors
PanelCallback == 11                 \* (update) => this.handleStateUpdate(update)
DisplayCallback == 12               \* (update) => this.update(update)

\* what each callback does when it is invoked; a callback that is not
\* registered is never invoked
BehaviourInputs(obs) ==
    {beh \in [Callbacks -> Behaviours] :
        \A o \in Callbacks :
            (\A i \in 1..Len(obs) : obs[i] # o) => beh[o] = "return"}

----------------------------------------------------------------------------
(* Operation labels.  A label is a string in the program; the model keeps  *)
(* the parts a template string is built from.                              *)

Label(kind, key, delta) == [kind |-> kind, key |-> key, delta |-> delta]
NullLabel == Label("null", "", 0)
UndefinedLabel == Label("undefined", "", 0)
TextLabel(s) == Label("text", s, 0)

----------------------------------------------------------------------------
(* ComplexityVector *)

\* validate that has no upper limit
validate_NoUpperLimit(values) ==
    \A i \in 1..Len(values) :
        /\ values[i] # NotANumber
        /\ values[i] >= 0

\* validate(...values): every value is a number within [0,1]
validate(values) ==
    \A i \in 1..Len(values) :
        /\ values[i] # NotANumber
        /\ values[i] >= 0
        /\ values[i] <= One

\* the four constructor parameters with their defaults (alg = 0.5, ...)
ConstructorArgs(args) ==
    [i \in 1..4 |-> IF i <= Len(args) THEN args[i] ELSE 50]

\* new ComplexityVector(...args): ok is FALSE when validate throws
NewComplexityVector(args) ==
    LET d == ConstructorArgs(args)
    IN  [ok |-> validate(d), data |-> d]

toArray(v) == v

clone(v) == NewComplexityVector(v).data

\* keyMap
KeyIndex(key) == CHOOSE i \in 1..4 : Keys[i] = key

KnownKey(key) == \E i \in 1..4 : Keys[i] = key

\* get(key): null for a key that is not in keyMap
get(v, key) == IF KnownKey(key) THEN v[KeyIndex(key)] ELSE Null

\* set(key, value): ok is FALSE when validate throws; a key that is not in
\* keyMap is ignored
set(v, key, value) ==
    IF KnownKey(key)
    THEN IF validate(<<value>>)
         THEN [ok |-> TRUE, data |-> [v EXCEPT ![KeyIndex(key)] = value]]
         ELSE [ok |-> FALSE, data |-> v]
    ELSE [ok |-> TRUE, data |-> v]

Abs(x) == IF x < 0 THEN 0 - x ELSE x

\* equals(other, epsilon = EPSILON): every |a - b| < epsilon
equals(a, b) ==
    \A i \in 1..4 : Abs(a[i] - b[i]) * PerEpsilon < One

----------------------------------------------------------------------------
(* ComplexityState: the object as a record, and its methods as operators   *)
(* from the object (and the arguments) to the object after the call.       *)

Self ==
    [vector |-> vector, history |-> history, maxHistory |-> maxHistory,
     weights |-> weights, deltas |-> deltas, observers |-> observers,
     lastOperation |-> lastOperation, sessionStartTime |-> sessionStartTime,
     operationCount |-> operationCount, registrations |-> registrations]

RECURSIVE SumSeq(_)
SumSeq(s) == IF s = <<>> THEN 0 ELSE s[1] + SumSeq(Tail(s))

NaNScalar == [n |-> NotANumber, d |-> 1]

\* weights = null
NullWeights == [num |-> <<>>, den |-> Null]

\* Math.abs(sum - 1.0) > EPSILON, for the weights num[i]/den
OffOne(w) ==
    LET diff == SumSeq(w.num) - w.den
    IN  (IF diff < 0 THEN 0 - diff ELSE diff) * PerEpsilon > w.den

\* getScalar(vector, weights): the weighted sum, as the fraction n/d.
\* Weights whose sum differs from 1 by more than EPSILON are divided by
\* their sum first.  A weight that is missing or not a number, or a
\* division by a zero sum, makes the result NaN.
getScalar(s, v, ws) ==
    LET w == IF ws = NullWeights THEN s.weights ELSE ws
        sum == SumSeq(w.num)
    IN  IF \/ Len(w.num) < Len(v)
           \/ \E i \in 1..Len(w.num) : w.num[i] = NotANumber
           \/ sum = 0
        THEN NaNScalar
        ELSE [n |-> SumSeq([i \in 1..Len(v) |-> v[i] * w.num[i]]),
              d |-> IF OffOne(w) THEN sum ELSE w.den]

\* addToHistory(vector, operation)
addToHistory(s, v, operation, t) ==
    LET entry == [vector |-> clone(v),
                  operation |-> operation,
                  timestamp |-> t,
                  scalar |-> getScalar(s, v, NullWeights),
                  operationIndex |-> s.operationCount]
        pushed == Append(s.history, entry)
    IN  [s EXCEPT !.history =
            IF Len(pushed) > s.maxHistory THEN Tail(pushed) ELSE pushed]

\* this.observers.indexOf(observer), 1-based; 0 when absent
IndexOf(obs, o) ==
    IF \E i \in 1..Len(obs) : obs[i] = o
    THEN CHOOSE i \in 1..Len(obs) :
            /\ obs[i] = o
            /\ \A j \in 1..(i - 1) : obs[j] # o
    ELSE 0

\* q.splice(index, 1)
RemoveAt(q, index) ==
    IF index \in 1..Len(q)
    THEN SubSeq(q, 1, index - 1) \o SubSeq(q, index + 1, Len(q))
    ELSE q

\* the unsubscribe function returned by subscribe(observer)
Unsubscribed(obs, o) ==
    IF \E i \in 1..Len(obs) : obs[i] = o
    THEN LET index == CHOOSE i \in 1..Len(obs) :
                        /\ obs[i] = o
                        /\ \A j \in 1..(i - 1) : obs[j] # o
         IN  SubSeq(obs, 1, index - 1) \o SubSeq(obs, index + 1, Len(obs))
    ELSE obs

\* what the callback o does when invoked; the callbacks of the UI
\* components return
Behaviour(beh, o) == IF o \in Callbacks THEN beh[o] ELSE "return"

\* what an observer callback is handed: the event and the state object
Delivery(s, o, update, outcome) ==
    [observer |-> o, update |-> update, outcome |-> outcome,
     seen |-> [vector |-> s.vector, history |-> s.history,
               operationCount |-> s.operationCount, weights |-> s.weights,
               deltas |-> s.deltas]]

\* this.observers.forEach(...): indices 0..k-1 of the array as it is when
\* each index is reached; k is the length when forEach was called.
RECURSIVE forEach(_, _, _, _, _, _)
forEach(s, i, k, update, beh, log) ==
    IF i > k
    THEN [state |-> s, delivered |-> log]
    ELSE IF i > Len(s.observers)
    THEN forEach(s, i + 1, k, update, beh, log)
    ELSE LET o == s.observers[i]
             s2 == IF Behaviour(beh, o) = "unsubscribe"
                   THEN [s EXCEPT !.observers = Unsubscribed(s.observers, o),
                                  !.registrations =
                                      RemoveAt(@, IndexOf(s.observers, o))]
                   ELSE s
         IN  forEach(s2, i + 1, k, update, beh,
                     Append(log, Delivery(s, o, update, Behaviour(beh, o))))

\* notify that rethrows an observer's exception once the fan-out is over
notify_Rethrows(s, update, beh) ==
    LET r == forEach(s, 1, Len(s.observers), update, beh, <<>>)
    IN  [state |-> r.state, delivered |-> r.delivered,
         threw |-> \E i \in 1..Len(r.delivered) : r.delivered[i].outcome = "throw"]

\* notify(update): every callback runs inside try/catch
notify(s, update, beh) ==
    LET r == forEach(s, 1, Len(s.observers), update, beh, <<>>)
    IN  [state |-> r.state, delivered |-> r.delivered, threw |-> FALSE]

Event(type, v, operation, t) ==
    [type |-> type, vector |-> v, operation |-> operation, timestamp |-> t]

Threw(s) == [state |-> s, delivered |-> <<>>, threw |-> TRUE]

\* updateVector with the observers notified before the counter is incremented
updateVector_NotifiesEarly(s, newVector, operation, beh, t) ==
    LET s1 == addToHistory(s, clone(s.vector), operation, t)
        made == NewComplexityVector(newVector.data)
    IN  IF newVector.kind = "other" \/ ~made.ok
        THEN Threw(s1)
        ELSE LET s2 == [s1 EXCEPT !.vector = made.data, !.lastOperation = operation]
                 r == notify(s2, Event("vectorUpdate", s2.vector, operation, t), beh)
             IN  [r EXCEPT !.state.operationCount = @ + 1]

\* updateVector(newVector, operation)
updateVector(s, newVector, operation, beh, t) ==
    LET s1 == addToHistory(s, clone(s.vector), operation, t)
        made == NewComplexityVector(newVector.data)
    IN  IF newVector.kind = "other" \/ ~made.ok
        THEN Threw(s1)
        ELSE LET s2 == [s1 EXCEPT !.vector = made.data]
                 s3 == [s2 EXCEPT !.lastOperation = operation,
                                  !.operationCount = @ + 1]
             IN  notify(s3, Event("vectorUpdate", s3.vector, operation, t), beh)

\* improve(pillar, delta); pillar is the 0-based index the caller passes
improve(s, pillar, delta, beh, t) ==
    LET current == toArray(s.vector)
        clamped(x) == IF x > One THEN One ELSE IF x < 0 THEN 0 ELSE x
        updated == IF pillar \in 0..3
                   THEN [current EXCEPT ![pillar + 1] = clamped(current[pillar + 1] + delta)]
                   ELSE current \o <<NotANumber>>
        made == NewComplexityVector(updated)
        key == IF pillar \in 0..3 THEN Keys[pillar + 1] ELSE "undefined"
    IN  IF ~made.ok
        THEN Threw(s)
        ELSE updateVector(s, [kind |-> "vector", data |-> made.data],
                          Label("improve", key, delta), beh, t)

\* reset(initial)
reset(s, initial, beh, t) ==
    LET s1 == [s EXCEPT !.history = <<>>,
                        !.operationCount = 0,
                        !.lastOperation = NullLabel]
    IN  updateVector(s1, initial, TextLabel("reset"), beh, t)

\* undo that takes the undone operation off the counter
undo_CountsDown(s, beh, t) ==
    IF Len(s.history) > 0
    THEN LET previous == s.history[Len(s.history)]
             s1 == [s EXCEPT !.history = SubSeq(s.history, 1, Len(s.history) - 1),
                             !.vector = clone(previous.vector),
                             !.lastOperation = TextLabel("undo"),
                             !.operationCount = @ - 1]
             r == notify(s1, Event("undo", s1.vector, UndefinedLabel, t), beh)
         IN  [state |-> r.state, delivered |-> r.delivered, threw |-> FALSE,
              returned |-> TRUE]
    ELSE [state |-> s, delivered |-> <<>>, threw |-> FALSE, returned |-> FALSE]

\* undo that reads the last entry without removing it
undo_KeepsEntry(s, beh, t) ==
    IF Len(s.history) > 0
    THEN LET previous == s.history[Len(s.history)]
             s1 == [s EXCEPT !.vector = clone(previous.vector),
                             !.lastOperation = TextLabel("undo"),
                             !.operationCount = @ + 1]
             r == notify(s1, Event("undo", s1.vector, UndefinedLabel, t), beh)
         IN  [state |-> r.state, delivered |-> r.delivered, threw |-> FALSE,
              returned |-> TRUE]
    ELSE [state |-> s, delivered |-> <<>>, threw |-> FALSE, returned |-> FALSE]

\* undo that counts and announces the call before looking at the history
undo_AlwaysNotifies(s, beh, t) ==
    LET s0 == [s EXCEPT !.lastOperation = TextLabel("undo"),
                        !.operationCount = @ + 1]
    IN  IF Len(s.history) > 0
        THEN LET previous == s.history[Len(s.history)]
                 s1 == [s0 EXCEPT !.history = SubSeq(s.history, 1, Len(s.history) - 1),
                                  !.vector = clone(previous.vector)]
                 r == notify(s1, Event("undo", s1.vector, UndefinedLabel, t), beh)
             IN  [state |-> r.state, delivered |-> r.delivered, threw |-> FALSE,
                  returned |-> TRUE]
        ELSE LET r == notify(s0, Event("undo", s0.vector, UndefinedLabel, t), beh)
             IN  [state |-> r.state, delivered |-> r.delivered, threw |-> FALSE,
                  returned |-> FALSE]

\* undo that drops the entry and leaves the vector as it is
undo_KeepsVector(s, beh, t) ==
    IF Len(s.history) > 0
    THEN LET s1 == [s EXCEPT !.history = SubSeq(s.history, 1, Len(s.history) - 1),
                             !.lastOperation = TextLabel("undo"),
                             !.operationCount = @ + 1]
             r == notify(s1, Event("undo", s1.vector, UndefinedLabel, t), beh)
         IN  [state |-> r.state, delivered |-> r.delivered, threw |-> FALSE,
              returned |-> TRUE]
    ELSE [state |-> s, delivered |-> <<>>, threw |-> FALSE, returned |-> FALSE]

\* undo()
undo(s, beh, t) ==
    IF Len(s.history) > 0
    THEN LET previous == s.history[Len(s.history)]
             s1 == [s EXCEPT !.history = SubSeq(s.history, 1, Len(s.history) - 1),
                             !.vector = clone(previous.vector),
                             !.lastOperation = TextLabel("undo"),
                             !.operationCount = @ + 1]
             r == notify(s1, Event("undo", s1.vector, UndefinedLabel, t), beh)
         IN  [state |-> r.state, delivered |-> r.delivered, threw |-> FALSE,
              returned |-> TRUE]
    ELSE [state |-> s, delivered |-> <<>>, threw |-> FALSE, returned |-> FALSE]

RECURSIVE GCD(_, _)
GCD(a, b) == IF b = 0 THEN a ELSE GCD(b, a % b)

RECURSIVE GCDSeq(_)
GCDSeq(q) == IF q = <<>> THEN 0 ELSE GCD(q[1], GCDSeq(Tail(q)))

\* newWeights.map(w => w / sum), as fractions in lowest terms
Normalized(w) ==
    LET sum == SumSeq(w)
        g == GCDSeq(w)
    IN  IF sum = 0
        THEN [num |-> [i \in 1..Len(w) |-> NotANumber], den |-> 1]
        ELSE [num |-> [i \in 1..Len(w) |-> w[i] \div g], den |-> sum \div g]

\* updateWeights(newWeights)
updateWeights(s, newWeights, beh, t) ==
    IF newWeights.kind # "array" \/ Len(newWeights.data) # 4
    THEN Threw(s)
    ELSE LET s1 == [s EXCEPT !.weights = Normalized(newWeights.data)]
         IN  notify(s1, Event("weightsUpdate", <<>>, UndefinedLabel, t), beh)

\* { ...this.deltas, ...newDeltas }
Merged(d, p) ==
    [k \in (DOMAIN d) \cup (DOMAIN p) |-> IF k \in DOMAIN p THEN p[k] ELSE d[k]]

\* updateDeltas(newDeltas)
updateDeltas(s, newDeltas, beh, t) ==
    LET s1 == [s EXCEPT !.deltas = Merged(s.deltas, newDeltas)]
    IN  notify(s1, Event("deltasUpdate", <<>>, UndefinedLabel, t), beh)

\* subscribe(observer); id names this call
subscribe(s, o, id) ==
    [s EXCEPT !.observers = Append(@, o), !.registrations = Append(@, id)]

\* a call of the function that subscribe(o) returned
unsubscribe(s, o) ==
    [s EXCEPT !.observers = Unsubscribed(s.observers, o),
              !.registrations = RemoveAt(@, IndexOf(s.observers, o))]

\* export that stamps every history entry with the export time
export_Restamps(s, t) ==
    [vector |-> toArray(s.vector),
     hasWeights |-> TRUE, weights |-> s.weights,
     hasDeltas |-> TRUE, deltas |-> s.deltas,
     hasHistory |-> TRUE,
     history |-> [i \in 1..Len(s.history) |->
                    [vector |-> toArray(s.history[i].vector),
                     operation |-> s.history[i].operation,
                     timestamp |-> t]],
     hasMetadata |-> TRUE,
     metadata |-> [sessionStartTime |-> s.sessionStartTime,
                   operationCount |-> s.operationCount,
                   exportTime |-> t]]

\* export()
export(s, t) ==
    [vector |-> toArray(s.vector),
     hasWeights |-> TRUE, weights |-> s.weights,
     hasDeltas |-> TRUE, deltas |-> s.deltas,
     hasHistory |-> TRUE,
     history |-> [i \in 1..Len(s.history) |->
                    [vector |-> toArray(s.history[i].vector),
                     operation |-> s.history[i].operation,
                     timestamp |-> s.history[i].timestamp]],
     hasMetadata |-> TRUE,
     metadata |-> [sessionStartTime |-> s.sessionStartTime,
                   operationCount |-> s.operationCount,
                   exportTime |-> t]]

\* import(data)
import(s, data, beh, t) ==
    LET made == NewComplexityVector(data.vector)
    IN  IF ~made.ok
        THEN Threw(s)
        ELSE LET s1 == [s EXCEPT
                          !.vector = made.data,
                          !.weights = IF data.hasWeights THEN data.weights
                                      ELSE DEFAULT_WEIGHTS,
                          !.deltas = IF data.hasDeltas THEN data.deltas
                                     ELSE DEFAULT_DELTAS]
                 h == IF data.hasHistory THEN data.history ELSE <<>>
             IN  IF \E i \in 1..Len(h) : ~NewComplexityVector(h[i].vector).ok
                 THEN Threw(s1)
                 ELSE LET s2 == [s1 EXCEPT
                                   !.history =
                                      [i \in 1..Len(h) |->
                                         [vector |-> NewComplexityVector(h[i].vector).data,
                                          operation |-> h[i].operation,
                                          timestamp |-> h[i].timestamp,
                                          scalar |-> [n |-> Undefined, d |-> 1],
                                          operationIndex |-> Undefined]],
                                   !.sessionStartTime =
                                      IF data.hasMetadata
                                         /\ data.metadata.sessionStartTime # 0
                                      THEN data.metadata.sessionStartTime ELSE t,
                                   !.operationCount =
                                      IF data.hasMetadata
                                      THEN data.metadata.operationCount ELSE 0]
                      IN  notify(s2, Event("import", <<>>, UndefinedLabel, t), beh)

\* new ComplexityState(config)
ComplexityState(cfg, t) ==
    [vector |-> NewComplexityVector(DEFAULT_VECTOR).data,
     history |-> <<>>,
     maxHistory |-> IF cfg.maxHistory # 0 THEN cfg.maxHistory ELSE MAX_HISTORY,
     weights |-> DEFAULT_WEIGHTS,
     deltas |-> DEFAULT_DELTAS,
     observers |-> <<>>,
     lastOperation |-> NullLabel,
     sessionStartTime |-> t,
     operationCount |-> 0,
     registrations |-> <<>>]

----------------------------------------------------------------------------
(* ComplexityMath *)

Clamped(x) == IF x > One THEN One ELSE IF x < 0 THEN 0 ELSE x

\* applyImprovement(vector, pillar, delta): ok is FALSE when it throws;
\* the argument vector is cloned first and never written
applyImprovement(v, pillar, delta) ==
    LET improved == clone(v)
        current == get(improved, pillar)
    IN  IF current = Null
        THEN [ok |-> FALSE, data |-> v]
        ELSE set(improved, pillar, Clamped(current + delta))

OperationNames ==
    <<"Optimize Algorithm", "Add Correlations", "Increase Dynamics",
      "Enrich Topology", "Geometric Return">>

\* generateCycle whose last state is the state reached, not the initial one
generateCycle_NoReturn(initial, ds) ==
    LET s1 == applyImprovement(clone(initial), "alg", ds.alg)
        s2 == applyImprovement(s1.data, "info", ds.info)
        s3 == applyImprovement(s2.data, "dyn", ds.dyn)
        s4 == applyImprovement(s3.data, "geom", ds.geom)
    IN  [ok |-> s1.ok /\ s2.ok /\ s3.ok /\ s4.ok,
         states |-> <<clone(initial), clone(s1.data), clone(s2.data),
                      clone(s3.data), clone(s4.data), clone(s4.data)>>,
         operations |-> OperationNames,
         initial |-> initial]

\* generateCycle(initial, deltas): the six states and the five operation
\* names; ok is FALSE when one of the improvements throws; initial is the
\* argument vector as the call leaves it (it is only ever cloned)
generateCycle(initial, ds) ==
    LET s1 == applyImprovement(clone(initial), "alg", ds.alg)
        s2 == applyImprovement(s1.data, "info", ds.info)
        s3 == applyImprovement(s2.data, "dyn", ds.dyn)
        s4 == applyImprovement(s3.data, "geom", ds.geom)
    IN  [ok |-> s1.ok /\ s2.ok /\ s3.ok /\ s4.ok,
         states |-> <<clone(initial), clone(s1.data), clone(s2.data),
                      clone(s3.data), clone(s4.data), clone(initial)>>,
         operations |-> OperationNames,
         initial |-> initial]

\* computeScalarAverage that takes the weights as given, whatever their sum
computeScalarAverage_AsGiven(v, ws) ==
    LET w == IF ws = NullWeights THEN DEFAULT_WEIGHTS ELSE ws
    IN  [n |-> SumSeq([i \in 1..Len(v) |-> v[i] * w.num[i]]),
         d |-> w.den]

\* computeScalarAverage(vector, weights): the weighted sum, as the fraction
\* n/d.  Weights whose sum differs from 1 by more than EPSILON are divided
\* by their sum first; a zero sum makes the result NaN.
computeScalarAverage(v, ws) ==
    LET w == IF ws = NullWeights THEN DEFAULT_WEIGHTS ELSE ws
        sum == SumSeq(w.num)
    IN  IF OffOne(w) /\ sum = 0
        THEN NaNScalar
        ELSE [n |-> SumSeq([i \in 1..Len(v) |-> v[i] * w.num[i]]),
              d |-> IF OffOne(w) THEN sum ELSE w.den]

\* f < 0, for a scalar f = n/d
Negative(f) == f # NaNScalar /\ ((f.n < 0 /\ f.d > 0) \/ (f.n > 0 /\ f.d < 0))

\* Math.abs(f) < 1/per, for a scalar f = n/d hundredths
Below(f, per) == f # NaNScalar /\ Abs(f.n) * per < Abs(f.d) * One

\* Math.abs(f) > 1/per, for a scalar f = n/d hundredths
Above(f, per) == f # NaNScalar /\ Abs(f.n) * per > Abs(f.d) * One

\* categorizeLoss that looks for compression before inversion
categorizeLoss_CompressionFirst(vectorDelta, scalarDelta) ==
    LET hasPositive == \E i \in 1..Len(vectorDelta) : vectorDelta[i] * PerEpsilon > One
        hasNegative == \E i \in 1..Len(vectorDelta) : vectorDelta[i] * PerEpsilon < 0 - One
        squares == SumSeq([i \in 1..Len(vectorDelta) |-> vectorDelta[i] * vectorDelta[i]])
    IN  IF hasPositive /\ hasNegative /\ Below(scalarDelta, PerEpsilon)
        THEN "cancellation"
        ELSE IF /\ Above(scalarDelta, PerEpsilon)
                /\ 4 * scalarDelta.n * scalarDelta.n
                     < squares * scalarDelta.d * scalarDelta.d
        THEN "compression"
        ELSE IF hasPositive /\ Negative(scalarDelta) /\ Above(scalarDelta, PerEpsilon)
        THEN "inversion"
        ELSE IF hasPositive /\ Below(scalarDelta, PerEpsilon)
        THEN "invisibility"
        ELSE "none"

\* categorizeLoss(vectorDelta, scalarDelta).  The comparison
\* |scalarDelta| < sqrt(sum of squares) / 2 is made on the squares.
categorizeLoss(vectorDelta, scalarDelta) ==
    LET hasPositive == \E i \in 1..Len(vectorDelta) : vectorDelta[i] * PerEpsilon > One
        hasNegative == \E i \in 1..Len(vectorDelta) : vectorDelta[i] * PerEpsilon < 0 - One
        squares == SumSeq([i \in 1..Len(vectorDelta) |-> vectorDelta[i] * vectorDelta[i]])
    IN  IF hasPositive /\ hasNegative /\ Below(scalarDelta, PerEpsilon)
        THEN "cancellation"
        ELSE IF hasPositive /\ Negative(scalarDelta) /\ Above(scalarDelta, PerEpsilon)
        THEN "inversion"
        ELSE IF hasPositive /\ Below(scalarDelta, PerEpsilon)
        THEN "invisibility"
        ELSE IF /\ Above(scalarDelta, PerEpsilon)
                /\ 4 * scalarDelta.n * scalarDelta.n
                     < squares * scalarDelta.d * scalarDelta.d
        THEN "compression"
        ELSE "none"

\* the result object of calculateSignalLoss, from the deltas and the set of
\* the dimensions put into lostSignals
SignalLoss(vectorDelta, scalarDelta, lost) ==
    LET totalLoss == SumSeq([i \in 1..Len(vectorDelta) |->
                                IF i \in lost THEN vectorDelta[i] ELSE 0])
    IN  [total |-> totalLoss,
         byPillar |-> [k \in {Keys[i] : i \in lost} |-> vectorDelta[KeyIndex(k)]],
         scalarChange |-> scalarDelta,
         vectorChanges |-> vectorDelta,
         isSignalLost |-> totalLoss * PerThreshold > One,
         lossType |-> categorizeLoss(vectorDelta, scalarDelta)]

\* after - before, for two scalars over the same weights
ScalarDelta(scalarBefore, scalarAfter) ==
    IF scalarBefore = NaNScalar \/ scalarAfter = NaNScalar
    THEN NaNScalar
    ELSE [n |-> scalarAfter.n - scalarBefore.n, d |-> scalarAfter.d]

\* calculateSignalLoss that flags every dimension whose scalar is flat or
\* falling, whatever the sign of its own delta
calculateSignalLoss_AnyDelta(before, after, ws) ==
    LET vectorDelta == [i \in 1..Len(after) |-> after[i] - before[i]]
        scalarDelta == ScalarDelta(computeScalarAverage(before, ws),
                                   computeScalarAverage(after, ws))
    IN  SignalLoss(vectorDelta, scalarDelta,
                   {i \in 1..Len(vectorDelta) :
                        \/ Below(scalarDelta, PerThreshold)
                        \/ Negative(scalarDelta)})

\* calculateSignalLoss whose "no change" band is ten times as wide
calculateSignalLoss_WideBand(before, after, ws) ==
    LET vectorDelta == [i \in 1..Len(after) |-> after[i] - before[i]]
        scalarDelta == ScalarDelta(computeScalarAverage(before, ws),
                                   computeScalarAverage(after, ws))
    IN  SignalLoss(vectorDelta, scalarDelta,
                   {i \in 1..Len(vectorDelta) :
                        \/ vectorDelta[i] > 0 /\ Below(scalarDelta, PerThreshold \div 10)
                        \/ vectorDelta[i] > 0 /\ Negative(scalarDelta)})

\* calculateSignalLoss(before, after, weights)
calculateSignalLoss(before, after, ws) ==
    LET vectorDelta == [i \in 1..Len(after) |-> after[i] - before[i]]
        scalarDelta == ScalarDelta(computeScalarAverage(before, ws),
                                   computeScalarAverage(after, ws))
    IN  SignalLoss(vectorDelta, scalarDelta,
                   {i \in 1..Len(vectorDelta) :
                        \/ vectorDelta[i] > 0 /\ Below(scalarDelta, PerThreshold)
                        \/ vectorDelta[i] > 0 /\ Negative(scalarDelta)})

\* dominates without the strict part
dominates_OnlyGeq(a, b) ==
    \A i \in 1..Len(a) : a[i] >= b[i] - FineEpsilon

\* dominates(a, b), on vectors in fine units
dominates(a, b) ==
    LET allGeq == \A i \in 1..Len(a) : a[i] >= b[i] - FineEpsilon
        someGt == \E i \in 1..Len(a) : a[i] > b[i] + FineEpsilon
    IN  allGeq /\ someGt

\* computeParetoFrontier(states): the {state, index} pairs that pass the
\* filter, indices counted from 0
computeParetoFrontier(states) ==
    LET n == Len(states)
        isPareto == [i \in 1..n |->
                        ~\E j \in 1..n : i # j /\ dominates(states[j], states[i])]
        mapped == [i \in 1..n |-> [state |-> states[i], index |-> i - 1]]
    IN  SelectSeq(mapped, LAMBDA e : isPareto[e.index + 1])

----------------------------------------------------------------------------
(* CycleAnimator: the object as a record; timers counts the pending        *)
(* setTimeout callbacks, trail lists the steps applied since start().  A   *)
(* method returns the two objects after the call; clock tells whether the  *)
(* call read Date.now().                                                   *)

\* this.steps: pillar is the 0-based index, -1 for the projection step
steps ==
    <<[pillar |-> 0, delta |-> 15],
      [pillar |-> 1, delta |-> 12],
      [pillar |-> 2, delta |-> 10],
      [pillar |-> 3, delta |-> 8],
      [pillar |-> 0 - 1, delta |-> 0]>>

\* new CycleAnimator(canvasId, state)
CycleAnimator ==
    [isAnimating |-> FALSE, currentStep |-> 0, initialState |-> <<>>,
     timers |-> 0, trail |-> <<>>, starts |-> 0]

\* notifyObservers()
notifyObservers(s, beh, t) ==
    notify(s, Event("manualUpdate", s.vector, UndefinedLabel, t), beh)

\* stop()
stop(a) == [a EXCEPT !.isAnimating = FALSE]

\* complete()
complete(a) == stop(a)

Applied(a, s, r) ==
    [step |-> a.currentStep, before |-> s.vector, after |-> r.state.vector,
     deltas |-> r.state.deltas]

\* animateStep that does not look at isAnimating
animateStep_IgnoresStop(s, a, beh, t) ==
    IF a.currentStep >= Len(steps)
    THEN [state |-> s, anim |-> complete(a), delivered |-> <<>>, threw |-> FALSE,
          clock |-> FALSE]
    ELSE LET step == steps[a.currentStep + 1]
             r == IF step.pillar >= 0
                  THEN improve(s, step.pillar, step.delta, beh, t)
                  ELSE notifyObservers([s EXCEPT !.vector = clone(a.initialState)],
                                       beh, t)
         IN  IF r.threw
             THEN [state |-> r.state, anim |-> a, delivered |-> r.delivered,
                   threw |-> TRUE, clock |-> TRUE]
             ELSE [state |-> r.state,
                   anim |-> [a EXCEPT !.currentStep = @ + 1,
                                      !.timers = @ + 1,
                                      !.trail = Append(@, Applied(a, s, r))],
                   delivered |-> r.delivered, threw |-> FALSE, clock |-> TRUE]

\* animateStep(): one step of the cycle, then a timer for the next one
animateStep(s, a, beh, t) ==
    IF ~a.isAnimating \/ a.currentStep >= Len(steps)
    THEN [state |-> s, anim |-> complete(a), delivered |-> <<>>, threw |-> FALSE,
          clock |-> FALSE]
    ELSE LET step == steps[a.currentStep + 1]
             r == IF step.pillar >= 0
                  THEN improve(s, step.pillar, step.delta, beh, t)
                  ELSE notifyObservers([s EXCEPT !.vector = clone(a.initialState)],
                                       beh, t)
         IN  IF r.threw
             THEN [state |-> r.state, anim |-> a, delivered |-> r.delivered,
                   threw |-> TRUE, clock |-> TRUE]
             ELSE [state |-> r.state,
                   anim |-> [a EXCEPT !.currentStep = @ + 1,
                                      !.timers = @ + 1,
                                      !.trail = Append(@, Applied(a, s, r))],
                   delivered |-> r.delivered, threw |-> FALSE, clock |-> TRUE]

\* start()
start(s, a, beh, t) ==
    IF a.isAnimating
    THEN [state |-> s, anim |-> a, delivered |-> <<>>, threw |-> FALSE,
          clock |-> FALSE]
    ELSE animateStep(s, [a EXCEPT !.isAnimating = TRUE,
                                  !.currentStep = 0,
                                  !.initialState = clone(s.vector),
                                  !.trail = <<>>,
                                  !.starts = @ + 1], beh, t)

\* CycleAnimator.reset()
resetAnimator(s, a, beh, t) ==
    LET a1 == [stop(a) EXCEPT !.currentStep = 0]
    IN  IF a.initialState # <<>>
        THEN LET r == notifyObservers([s EXCEPT !.vector = clone(a.initialState)],
                                      beh, t)
             IN  [state |-> r.state, anim |-> a1, delivered |-> r.delivered,
                  threw |-> FALSE, clock |-> TRUE]
        ELSE [state |-> s, anim |-> a1, delivered |-> <<>>, threw |-> FALSE,
              clock |-> FALSE]

----------------------------------------------------------------------------
(* InputPanel and VectorDisplay: sliders is the vector the four sliders    *)
(* show, rendered the vector VectorDisplay rendered last, debounceTimer    *)
(* the pending debounced callback (at most one), entered the last value    *)
(* typed into each slider, inputs the number of slider events so far.      *)

NoUI ==
    [sliders |-> <<>>, rendered |-> <<>>, debounceTimer |-> <<>>,
     entered |-> <<>>, inputs |-> 0]

\* new InputPanel(container, state); new VectorDisplay(container, state):
\* both render the current vector
NewUI(s) ==
    [sliders |-> toArray(s.vector), rendered |-> toArray(s.vector),
     debounceTimer |-> <<>>, entered |-> <<Null, Null, Null, Null>>,
     inputs |-> 0]

\* InputPanel.handleStateUpdate(update); seen is the state it reads
handleStateUpdate(u, event, seen) ==
    IF event.type \in {"vectorUpdate", "undo", "import"}
    THEN [u EXCEPT !.sliders = toArray(seen.vector)]
    ELSE u

\* VectorDisplay.update(update); render() shows the state's vector
displayUpdate(u, event, seen) ==
    IF event.type \in {"vectorUpdate", "weightsUpdate"}
    THEN [u EXCEPT !.rendered = toArray(seen.vector)]
    ELSE u

\* the UI after the observer invocations d of one fan-out
RECURSIVE Shown(_, _)
Shown(u, d) ==
    IF d = <<>>
    THEN u
    ELSE LET del == d[1]
             u1 == IF del.observer = PanelCallback
                   THEN handleStateUpdate(u, del.update, del.seen)
                   ELSE IF del.observer = DisplayCallback
                   THEN displayUpdate(u, del.update, del.seen)
                   ELSE u
         IN  Shown(u1, Tail(d))

\* InputPanel.handleSliderChange(event), up to the setTimeout: the slider
\* of the event already shows the value; the one timer of the panel is
\* cleared and set again
handleSliderChange(u, slider) ==
    [u EXCEPT !.sliders[slider.index + 1] = slider.value,
              !.entered[slider.index + 1] = slider.value,
              !.debounceTimer = <<slider>>,
              !.inputs = @ + 1]

\* the callback handleSliderChange gave to setTimeout
debounced(s, slider, beh, t) ==
    LET newVector == [clone(s.vector) EXCEPT ![slider.index + 1] = slider.value]
    IN  updateVector(s, [kind |-> "vector", data |-> newVector],
                     Label("Manual adjust", slider.pillar, 0), beh, t)

----------------------------------------------------------------------------
(* Inputs *)

\* values passed to updateVector: arrays (well formed or not), a vector
\* object, and anything else
VectorInputs ==
    {[kind |-> "array", data |-> d] :
        d \in {<<80, 40, 60, 30>>, <<30, 30, 30>>, <<50, NotANumber, 150, 50>>}}
    \cup {[kind |-> "vector", data |-> <<20, 20, 20, 20>>]}
    \cup {[kind |-> "other", data |-> <<>>]}

LabelInputs == {TextLabel("Manual adjust")}

\* config.maxHistory: 0 (or absent) and a positive maximum
ConfigInputs == {[maxHistory |-> m] : m \in {0, MaxHistoryCfg}}

\* pillar indices passed to improve; 4 is not a pillar
PillarInputs == {0, 3, 4}

DeltaInputs == {60}

ResetInputs ==
    {[kind |-> "array", data |-> d] : d \in {DEFAULT_VECTOR, <<50, 50, 150, 50>>}}

WeightInputs ==
    {[kind |-> "array", data |-> d] :
        d \in {<<2, 1, 1, 0>>, <<1, 1, 1>>, <<0, 0, 0, 0>>}}

DeltasInputs == {[alg |-> 10, extra |-> 5]}

\* argument lists of new ComplexityVector(...)
ConstructionInputs ==
    {<<>>, <<30>>, <<0, 100, 0, 100>>, <<50, NotANumber, 50, 50>>,
     <<50, 50, 50, 101>>, <<0 - 1, 50, 50, 50>>, <<10, 20, 30, 40, NotANumber>>}

\* values passed to set(key, value)
ValueInputs == {0, 37, 100, 101, 0 - 1, NotANumber}

\* a slider being moved: its data-index, its data-pillar and its value
SliderInputs ==
    {[index |-> 1, pillar |-> "info", value |-> x] : x \in {30, 150}}

\* an input event on a slider of the panel: range inputs give values in [0, 1]
PanelSliderInputs ==
    {[index |-> i, pillar |-> Keys[i + 1], value |-> x] : i \in {0, 1}, x \in {30, 80}}

\* arguments of generateCycle
CycleInitialInputs ==
    {<<a, b, c, d>> : a \in {0, 50, 90}, b \in {0, 50, 90},
                      c \in {50, 95}, d \in {0, 80, 100}}

CycleDeltasInputs ==
    {DEFAULT_DELTAS,
     [alg |-> 15, info |-> 12, dyn |-> 10, geom |-> 8],
     [alg |-> 0 - 60, info |-> 100, dyn |-> 0, geom |-> 0 - 5]}

HistoryItem(v, t) ==
    [vector |-> v, operation |-> TextLabel("imported"), timestamp |-> t]

\* payloads handed to import: a bare vector with a long history, an invalid
\* current vector, an invalid history vector
PayloadInputs ==
    LET base == [vector |-> <<10, 10, 10, 10>>,
                 hasWeights |-> FALSE, weights |-> DEFAULT_WEIGHTS,
                 hasDeltas |-> FALSE, deltas |-> DEFAULT_DELTAS,
                 hasHistory |-> FALSE, history |-> <<>>,
                 hasMetadata |-> FALSE,
                 metadata |-> [sessionStartTime |-> 0, operationCount |-> 0,
                               exportTime |-> 0]]
    IN  {[base EXCEPT !.hasHistory = TRUE,
                      !.history = [i \in 1..(MaxHistoryCfg + 1) |->
                                     HistoryItem(<<10, 10, 10, 10>>, i)]],
         [base EXCEPT !.vector = <<10, 10, 10, 110>>],
         [base EXCEPT !.hasWeights = TRUE,
                      !.weights = [num |-> <<1, 0, 0, 0>>, den |-> 1],
                      !.hasHistory = TRUE,
                      !.history = <<HistoryItem(<<10, 10, 10, 10>>, 1),
                                    HistoryItem(<<10, NotANumber, 10, 10>>, 2)>>]}

----------------------------------------------------------------------------
(* The state machine *)

\* no update to take back
NoStreak == [stack |-> <<>>, undone |-> <<>>, undos |-> 0]

\* no ComplexityMath call made
NoMath == [called |-> {}]

Install(s) ==
    /\ vector' = s.vector
    /\ history' = s.history
    /\ maxHistory' = s.maxHistory
    /\ weights' = s.weights
    /\ deltas' = s.deltas
    /\ observers' = s.observers
    /\ lastOperation' = s.lastOperation
    /\ sessionStartTime' = s.sessionStartTime
    /\ operationCount' = s.operationCount
    /\ registrations' = s.registrations

Call(op, arg, label, threw, returned) ==
    [op |-> op, arg |-> arg, label |-> label, threw |-> threw, returned |-> returned]

NoArg == [kind |-> "none", data |-> <<>>]

\* the snapshots of the updateVector calls made on an empty history so far;
\* any other call that touches the history ends the record
Recorded(r, operation) ==
    IF r.threw
    THEN [run EXCEPT !.valid = FALSE]
    ELSE [run EXCEPT !.snaps = Append(@, [vector |-> vector, operation |-> operation,
                                          timestamp |-> now])]

\* new ComplexityState(config)
Init ==
    /\ config \in ConfigInputs
    /\ vector = ComplexityState(config, 1).vector
    /\ history = ComplexityState(config, 1).history
    /\ maxHistory = ComplexityState(config, 1).maxHistory
    /\ weights = ComplexityState(config, 1).weights
    /\ deltas = ComplexityState(config, 1).deltas
    /\ observers = ComplexityState(config, 1).observers
    /\ lastOperation = ComplexityState(config, 1).lastOperation
    /\ sessionStartTime = ComplexityState(config, 1).sessionStartTime
    /\ operationCount = ComplexityState(config, 1).operationCount
    /\ registrations = ComplexityState(config, 1).registrations
    /\ now = 1
    /\ issued = {}
    /\ lastCall = Call("new", NoArg, NullLabel, FALSE, FALSE)
    /\ delivered = <<>>
    /\ run = [valid |-> TRUE, snaps |-> <<>>]
    /\ anim = CycleAnimator
    /\ cycle = [called |-> FALSE, initial |-> DEFAULT_VECTOR,
                deltas |-> DEFAULT_DELTAS, result |-> generateCycle(DEFAULT_VECTOR, DEFAULT_DELTAS)]
    /\ math = NoMath
    /\ ui = NoUI
    /\ streak = NoStreak

UpdateVector ==
    /\ now < MaxTime
    /\ \E newVector \in VectorInputs, operation \in LabelInputs,
          beh \in BehaviourInputs(observers) :
        LET r == updateVector(Self, newVector, operation, beh, now)
        IN  /\ Install(r.state)
            /\ delivered' = r.delivered
            /\ lastCall' = Call("updateVector", newVector, operation, r.threw, FALSE)
            /\ run' = Recorded(r, operation)
    /\ now' = now + 1
    /\ UNCHANGED <<config, issued>>
    /\ UNCHANGED <<anim, cycle, math, streak>>
    /\ ui' = Shown(ui, delivered')

Improve ==
    /\ now < MaxTime
    /\ \E pillar \in PillarInputs, delta \in DeltaInputs,
          beh \in BehaviourInputs(observers) :
        LET r == improve(Self, pillar, delta, beh, now)
            key == IF pillar \in 0..3 THEN Keys[pillar + 1] ELSE "undefined"
        IN  /\ Install(r.state)
            /\ delivered' = r.delivered
            /\ lastCall' = Call("improve", [kind |-> "pillar", data |-> <<pillar, delta>>],
                                NullLabel, r.threw, FALSE)
            /\ run' = Recorded(r, Label("improve", key, delta))
    /\ now' = now + 1
    /\ UNCHANGED <<config, issued>>
    /\ UNCHANGED <<anim, cycle, math, streak>>
    /\ ui' = Shown(ui, delivered')

Undo ==
    /\ now < MaxTime
    /\ \E beh \in BehaviourInputs(observers) :
        LET r == undo(Self, beh, now)
        IN  /\ Install(r.state)
            /\ delivered' = r.delivered
            /\ lastCall' = Call("undo", NoArg, NullLabel, r.threw, r.returned)
    /\ run' = [run EXCEPT !.valid = FALSE]
    /\ now' = now + 1
    /\ UNCHANGED <<config, issued>>
    /\ UNCHANGED <<anim, cycle, math, streak>>
    /\ ui' = Shown(ui, delivered')

Reset ==
    /\ now < MaxTime
    /\ \E initial \in ResetInputs, beh \in BehaviourInputs(observers) :
        LET r == reset(Self, initial, beh, now)
        IN  /\ Install(r.state)
            /\ delivered' = r.delivered
            /\ lastCall' = Call("reset", initial, NullLabel, r.threw, FALSE)
    /\ run' = [run EXCEPT !.valid = FALSE]
    /\ now' = now + 1
    /\ UNCHANGED <<config, issued>>
    /\ UNCHANGED <<anim, cycle, math, streak>>
    /\ ui' = Shown(ui, delivered')

UpdateWeights ==
    /\ now < MaxTime
    /\ \E newWeights \in WeightInputs, beh \in BehaviourInputs(observers) :
        LET r == updateWeights(Self, newWeights, beh, now)
        IN  /\ Install(r.state)
            /\ delivered' = r.delivered
            /\ lastCall' = Call("updateWeights", newWeights, NullLabel, r.threw, FALSE)
    /\ now' = now + 1
    /\ UNCHANGED <<config, issued, run>>
    /\ UNCHANGED <<anim, cycle, math, streak>>
    /\ ui' = Shown(ui, delivered')

UpdateDeltas ==
    /\ now < MaxTime
    /\ \E newDeltas \in DeltasInputs, beh \in BehaviourInputs(observers) :
        LET r == updateDeltas(Self, newDeltas, beh, now)
        IN  /\ Install(r.state)
            /\ delivered' = r.delivered
            /\ lastCall' = Call("updateDeltas", NoArg, NullLabel, r.threw, FALSE)
    /\ now' = now + 1
    /\ UNCHANGED <<config, issued, run>>
    /\ UNCHANGED <<anim, cycle, math, streak>>
    /\ ui' = Shown(ui, delivered')

Subscribe ==
    /\ now < MaxTime
    /\ Len(observers) < MaxObservers
    /\ \E o \in Callbacks :
        /\ Install(subscribe(Self, o, now))
        /\ issued' = issued \cup {[callback |-> o, id |-> now]}
        /\ lastCall' = Call("subscribe", [kind |-> "callback", data |-> <<o>>],
                            NullLabel, FALSE, FALSE)
    /\ delivered' = <<>>
    /\ now' = now + 1
    /\ UNCHANGED <<config, run>>
    /\ UNCHANGED <<anim, cycle, math, streak>>
    /\ ui' = Shown(ui, delivered')

\* a call of an unsubscribe function that subscribe returned earlier
Unsubscribe ==
    /\ now < MaxTime
    /\ \E u \in issued :
        /\ Install(unsubscribe(Self, u.callback))
        /\ lastCall' = Call("unsubscribe", [kind |-> "callback", data |-> <<u.callback, u.id>>],
                            NullLabel, FALSE, FALSE)
    /\ delivered' = <<>>
    /\ now' = now + 1
    /\ UNCHANGED <<config, issued, run>>
    /\ UNCHANGED <<anim, cycle, math, streak>>
    /\ ui' = Shown(ui, delivered')

\* import(data) with a payload from outside
Import ==
    /\ now < MaxTime
    /\ \E data \in PayloadInputs, beh \in BehaviourInputs(observers) :
        LET r == import(Self, data, beh, now)
        IN  /\ Install(r.state)
            /\ delivered' = r.delivered
            /\ lastCall' = Call("import", [kind |-> "payload", data |-> data],
                                NullLabel, r.threw, FALSE)
    /\ run' = [run EXCEPT !.valid = FALSE]
    /\ now' = now + 1
    /\ UNCHANGED <<config, issued>>
    /\ UNCHANGED <<anim, cycle, math, streak>>
    /\ ui' = Shown(ui, delivered')

\* state.import(state.export())
ImportExported ==
    /\ now < MaxTime
    /\ \E beh \in BehaviourInputs(observers) :
        LET r == import(Self, export(Self, now), beh, now)
        IN  /\ Install(r.state)
            /\ delivered' = r.delivered
            /\ lastCall' = Call("importExported", NoArg, NullLabel, r.threw, FALSE)
    /\ run' = [run EXCEPT !.valid = FALSE]
    /\ now' = now + 1
    /\ UNCHANGED <<config, issued>>
    /\ UNCHANGED <<anim, cycle, math, streak>>
    /\ ui' = Shown(ui, delivered')

\* fresh = new ComplexityState(cfg); fresh.import(state.export()); the
\* variables describe the fresh object from here on
ImportIntoFresh ==
    /\ now < MaxTime
    /\ \E cfg \in ConfigInputs, beh \in BehaviourInputs(<<>>) :
        LET r == import(ComplexityState(cfg, now), export(Self, now), beh, now)
        IN  /\ Install(r.state)
            /\ delivered' = r.delivered
            /\ lastCall' = Call("importIntoFresh", NoArg, NullLabel, r.threw, FALSE)
            /\ config' = cfg
    /\ issued' = {}
    /\ run' = [run EXCEPT !.valid = FALSE]
    /\ now' = now + 1
    /\ UNCHANGED <<anim, cycle, math, streak>>
    /\ ui' = Shown(ui, delivered')

\* the debounced callback of InputPanel.handleSliderChange
SliderChange ==
    /\ now < MaxTime
    /\ \E slider \in SliderInputs, beh \in BehaviourInputs(observers) :
        LET written == [clone(vector) EXCEPT ![slider.index + 1] = slider.value]
            operation == Label("Manual adjust", slider.pillar, 0)
            r == updateVector(Self, [kind |-> "vector", data |-> written],
                              operation, beh, now)
        IN  /\ Install(r.state)
            /\ delivered' = r.delivered
            /\ lastCall' = Call("handleSliderChange",
                                [kind |-> "vector", data |-> written],
                                operation, r.threw, FALSE)
            /\ run' = Recorded(r, operation)
    /\ now' = now + 1
    /\ UNCHANGED <<config, issued>>
    /\ UNCHANGED <<anim, cycle, math, streak>>
    /\ ui' = Shown(ui, delivered')

Next ==
    \/ UpdateVector
    \/ Improve
    \/ Undo
    \/ Reset
    \/ UpdateWeights
    \/ UpdateDeltas
    \/ Subscribe
    \/ Unsubscribe
    \/ Import
    \/ ImportExported
    \/ ImportIntoFresh
    \/ SliderChange

Spec == Init /\ [][Next]_vars

----------------------------------------------------------------------------
(* ComplexityMath.generateCycle as a state machine: the arguments are      *)
(* chosen at the start, the one step calls the function.                   *)

InitCycle ==
    /\ config \in ConfigInputs
    /\ vector = ComplexityState(config, 1).vector
    /\ history = ComplexityState(config, 1).history
    /\ maxHistory = ComplexityState(config, 1).maxHistory
    /\ weights = ComplexityState(config, 1).weights
    /\ deltas = ComplexityState(config, 1).deltas
    /\ observers = ComplexityState(config, 1).observers
    /\ lastOperation = ComplexityState(config, 1).lastOperation
    /\ sessionStartTime = ComplexityState(config, 1).sessionStartTime
    /\ operationCount = ComplexityState(config, 1).operationCount
    /\ registrations = ComplexityState(config, 1).registrations
    /\ now = 1
    /\ issued = {}
    /\ lastCall = Call("new", NoArg, NullLabel, FALSE, FALSE)
    /\ delivered = <<>>
    /\ run = [valid |-> TRUE, snaps |-> <<>>]
    /\ math = NoMath
    /\ ui = NoUI
    /\ streak = NoStreak
    /\ anim = CycleAnimator
    /\ cycle \in {[called |-> FALSE, initial |-> initial, deltas |-> ds,
                    result |-> generateCycle(DEFAULT_VECTOR, DEFAULT_DELTAS)] :
                        initial \in CycleInitialInputs, ds \in CycleDeltasInputs}

GenerateCycle ==
    /\ ~cycle.called
    /\ cycle' = [cycle EXCEPT !.called = TRUE,
                              !.result = generateCycle(cycle.initial, cycle.deltas)]
    /\ lastCall' = Call("generateCycle", [kind |-> "vector", data |-> cycle.initial],
                        NullLabel, ~cycle'.result.ok, FALSE)
    /\ UNCHANGED <<vector, history, maxHistory, weights, deltas, observers,
                   lastOperation, sessionStartTime, operationCount, config, now,
                   registrations, issued, delivered, run, anim, math, ui,
                   streak>>

NextCycle == GenerateCycle

SpecCycle == InitCycle /\ [][NextCycle]_vars

----------------------------------------------------------------------------
(* The other functions of ComplexityMath, and getScalar, as a state        *)
(* machine: the arguments are chosen at the start, a step calls one        *)
(* function on them.                                                       *)

ScalarVectorInputs ==
    {<<80, 40, 60, 30>>, <<0, 0, 0, 0>>, <<100, 100, 100, 100>>,
     <<50, 50, 50, 50>>, <<70, 50, 50, 50>>, <<65, 35, 50, 50>>}

\* weights tuples: summing to 1, to 1 within EPSILON, to 1 but for a little
\* more than EPSILON, to something else, to 0
ScalarWeightInputs ==
    {DEFAULT_WEIGHTS,
     [num |-> <<6, 2, 1, 1>>, den |-> 10],
     [num |-> <<2500000, 2500000, 2500000, 2500001>>, den |-> 10000000],
     [num |-> <<2500000, 2500000, 2500000, 2500011>>, den |-> 10000000],
     [num |-> <<2, 1, 1, 0>>, den |-> 1],
     [num |-> <<3, 0 - 1, 0, 0>>, den |-> 1],
     [num |-> <<1, 1, 1, 1>>, den |-> 1],
     [num |-> <<1, 0 - 1, 0, 0>>, den |-> 1]}

LossVectorInputs ==
    {<<50, 50, 50, 50>>, <<65, 35, 50, 50>>, <<70, 50, 50, 50>>,
     <<60, 20, 50, 50>>, <<50, 50, 50, 51>>, <<40, 50, 50, 50>>,
     <<80, 40, 60, 30>>}

LossWeightInputs ==
    {NullWeights,
     [num |-> <<6, 2, 1, 1>>, den |-> 10],
     [num |-> <<3, 1, 0, 0>>, den |-> 1],
     [num |-> <<0, 0, 0, 1>>, den |-> 1]}

\* vectors in fine units: the four of the example, one within EPSILON of
\* the third, and three that differ by fractions of EPSILON
ParetoVectorInputs ==
    {<<8000000, 2000000, 5000000, 5000000>>,
     <<2000000, 8000000, 5000000, 5000000>>,
     <<5000000, 5000000, 5000000, 5000000>>,
     <<9000000, 9000000, 5000000, 5000000>>,
     <<5000005, 5000000, 5000000, 5000000>>,
     <<12, 0, 6, 5000000>>,
     <<0, 6, 12, 5000000>>,
     <<6, 12, 0, 5000000>>}

ListsOf(S, n) == UNION {[1..k -> S] : k \in 1..n}

Unused == <<0, 0, 0, 0>>

MathInputs ==
    {[args |-> "scalar", called |-> {}, vector |-> v, before |-> Unused,
      after |-> Unused, weights |-> w, states |-> <<>>, average |-> NaNScalar,
      scalar |-> NaNScalar, loss |-> <<>>, frontier |-> <<>>] :
        v \in ScalarVectorInputs, w \in ScalarWeightInputs}
    \cup
    {[args |-> "loss", called |-> {}, vector |-> Unused, before |-> b,
      after |-> a, weights |-> w, states |-> <<>>, average |-> NaNScalar,
      scalar |-> NaNScalar, loss |-> <<>>, frontier |-> <<>>] :
        b \in LossVectorInputs, a \in LossVectorInputs, w \in LossWeightInputs}
    \cup
    {[args |-> "pareto", called |-> {}, vector |-> Unused, before |-> Unused,
      after |-> Unused, weights |-> NullWeights, states |-> l,
      average |-> NaNScalar, scalar |-> NaNScalar, loss |-> <<>>,
      frontier |-> <<>>] :
        l \in ListsOf(ParetoVectorInputs, MaxStates)}

InitMath ==
    /\ config = [maxHistory |-> MaxHistoryCfg]
    /\ vector = ComplexityState(config, 1).vector
    /\ history = ComplexityState(config, 1).history
    /\ maxHistory = ComplexityState(config, 1).maxHistory
    /\ weights = ComplexityState(config, 1).weights
    /\ deltas = ComplexityState(config, 1).deltas
    /\ observers = ComplexityState(config, 1).observers
    /\ lastOperation = ComplexityState(config, 1).lastOperation
    /\ sessionStartTime = ComplexityState(config, 1).sessionStartTime
    /\ operationCount = ComplexityState(config, 1).operationCount
    /\ registrations = ComplexityState(config, 1).registrations
    /\ now = 1
    /\ issued = {}
    /\ lastCall = Call("new", NoArg, NullLabel, FALSE, FALSE)
    /\ delivered = <<>>
    /\ run = [valid |-> TRUE, snaps |-> <<>>]
    /\ math \in MathInputs
    /\ ui = NoUI
    /\ streak = NoStreak
    /\ anim = CycleAnimator
    /\ cycle = [called |-> FALSE, initial |-> DEFAULT_VECTOR, deltas |-> DEFAULT_DELTAS,
                result |-> generateCycle(DEFAULT_VECTOR, DEFAULT_DELTAS)]

ComputeScalarAverage ==
    /\ math.args = "scalar"
    /\ "computeScalarAverage" \notin math.called
    /\ math' = [math EXCEPT
                    !.called = @ \cup {"computeScalarAverage"},
                    !.average = computeScalarAverage(math.vector, math.weights)]
    /\ UNCHANGED <<vector, history, maxHistory, weights, deltas, observers,
                   lastOperation, sessionStartTime, operationCount, config, now,
                   registrations, issued, lastCall, delivered, run, anim, cycle,
                   ui, streak>>

GetScalar ==
    /\ math.args = "scalar"
    /\ "getScalar" \notin math.called
    /\ math' = [math EXCEPT
                    !.called = @ \cup {"getScalar"},
                    !.scalar = getScalar(Self, math.vector, math.weights)]
    /\ UNCHANGED <<vector, history, maxHistory, weights, deltas, observers,
                   lastOperation, sessionStartTime, operationCount, config, now,
                   registrations, issued, lastCall, delivered, run, anim, cycle,
                   ui, streak>>

CalculateSignalLoss ==
    /\ math.args = "loss"
    /\ math.called = {}
    /\ math' = [math EXCEPT
                    !.called = {"calculateSignalLoss"},
                    !.loss = calculateSignalLoss(math.before, math.after,
                                                 math.weights)]
    /\ UNCHANGED <<vector, history, maxHistory, weights, deltas, observers,
                   lastOperation, sessionStartTime, operationCount, config, now,
                   registrations, issued, lastCall, delivered, run, anim, cycle,
                   ui, streak>>

ComputeParetoFrontier ==
    /\ math.args = "pareto"
    /\ math.called = {}
    /\ math' = [math EXCEPT
                    !.called = {"computeParetoFrontier"},
                    !.frontier = computeParetoFrontier(math.states)]
    /\ UNCHANGED <<vector, history, maxHistory, weights, deltas, observers,
                   lastOperation, sessionStartTime, operationCount, config, now,
                   registrations, issued, lastCall, delivered, run, anim, cycle,
                   ui, streak>>

NextMath ==
    \/ ComputeScalarAverage
    \/ GetScalar
    \/ CalculateSignalLoss
    \/ ComputeParetoFrontier

SpecMath == InitMath /\ [][NextMath]_vars

----------------------------------------------------------------------------
(* The CycleAnimator driving the state, next to a user who edits the       *)
(* deltas.                                                                 *)

Animated(r, op) ==
    /\ Install(r.state)
    /\ anim' = r.anim
    /\ delivered' = r.delivered
    /\ lastCall' = Call(op, NoArg, NullLabel, r.threw, r.anim # anim)
    /\ run' = [run EXCEPT !.valid = FALSE]
    /\ now' = IF r.clock THEN now + 1 ELSE now
    /\ ui' = Shown(ui, r.delivered)
    /\ UNCHANGED <<config, issued, cycle, math, streak>>

\* a click on the start button
AnimatorStart ==
    /\ anim.starts < MaxStarts
    /\ \E beh \in BehaviourInputs(observers) :
        Animated(start(Self, anim, beh, now), "start")

\* a pending setTimeout callback runs animateStep()
AnimatorTimer ==
    /\ anim.timers > 0
    /\ \E beh \in BehaviourInputs(observers) :
        Animated(animateStep(Self, [anim EXCEPT !.timers = @ - 1], beh, now),
                 "animateStep")

\* a click on the stop button
AnimatorStop ==
    /\ anim.isAnimating
    /\ anim' = stop(anim)
    /\ lastCall' = Call("stop", NoArg, NullLabel, FALSE, FALSE)
    /\ delivered' = <<>>
    /\ UNCHANGED <<vector, history, maxHistory, weights, deltas, observers,
                   lastOperation, sessionStartTime, operationCount, config, now,
                   registrations, issued, run, cycle, math, ui, streak>>

\* a click on the reset button once a run has begun
AnimatorReset ==
    /\ anim.isAnimating \/ anim.currentStep > 0
    /\ \E beh \in BehaviourInputs(observers) :
        Animated(resetAnimator(Self, anim, beh, now), "resetAnimator")

NextAnimator ==
    \/ AnimatorStart
    \/ AnimatorTimer
    \/ AnimatorStop
    \/ AnimatorReset
    \/ UpdateDeltas

SpecAnimator == Init /\ [][NextAnimator]_vars

----------------------------------------------------------------------------
(* The dashboard: a state with an InputPanel and a VectorDisplay           *)
(* subscribed to it, in the order ComplexityDashboard constructs them.     *)

\* the state after new InputPanel(el, state) and new VectorDisplay(el, state)
PanelState(cfg) ==
    subscribe(subscribe(ComplexityState(cfg, 1), PanelCallback, PanelCallback),
              DisplayCallback, DisplayCallback)

InitPanel ==
    /\ config \in ConfigInputs
    /\ vector = PanelState(config).vector
    /\ history = PanelState(config).history
    /\ maxHistory = PanelState(config).maxHistory
    /\ weights = PanelState(config).weights
    /\ deltas = PanelState(config).deltas
    /\ observers = PanelState(config).observers
    /\ lastOperation = PanelState(config).lastOperation
    /\ sessionStartTime = PanelState(config).sessionStartTime
    /\ operationCount = PanelState(config).operationCount
    /\ registrations = PanelState(config).registrations
    /\ now = 1
    /\ issued = {[callback |-> PanelCallback, id |-> PanelCallback],
                 [callback |-> DisplayCallback, id |-> DisplayCallback]}
    /\ lastCall = Call("new", NoArg, NullLabel, FALSE, FALSE)
    /\ delivered = <<>>
    /\ run = [valid |-> TRUE, snaps |-> <<>>]
    /\ anim = CycleAnimator
    /\ cycle = [called |-> FALSE, initial |-> DEFAULT_VECTOR,
                deltas |-> DEFAULT_DELTAS, result |-> generateCycle(DEFAULT_VECTOR, DEFAULT_DELTAS)]
    /\ math = NoMath
    /\ ui = NewUI(PanelState(config))
    /\ streak = NoStreak

\* an input event on a slider: the slider shows the value the user gave it,
\* the pending debounced callback is cleared and a new one is scheduled
SliderInput ==
    /\ ui.inputs < MaxInputs
    /\ \E slider \in PanelSliderInputs :
        /\ ui' = handleSliderChange(ui, slider)
        /\ lastCall' = Call("input", [kind |-> "slider", data |-> <<slider.index, slider.value>>],
                            Label("Manual adjust", slider.pillar, 0), FALSE, FALSE)
    /\ delivered' = <<>>
    /\ UNCHANGED <<vector, history, maxHistory, weights, deltas, observers,
                   lastOperation, sessionStartTime, operationCount, config, now,
                   registrations, issued, run, anim, cycle, math, streak>>

\* DEBOUNCE_DELAY after the last input event: the pending callback runs
DebounceTimer ==
    /\ now < MaxTime
    /\ ui.debounceTimer # <<>>
    /\ \E beh \in BehaviourInputs(observers) :
        LET slider == ui.debounceTimer[1]
            operation == Label("Manual adjust", slider.pillar, 0)
            r == debounced(Self, slider, beh, now)
        IN  /\ Install(r.state)
            /\ delivered' = r.delivered
            /\ lastCall' = Call("debounced", [kind |-> "slider", data |-> <<slider.index, slider.value>>],
                                operation, r.threw, FALSE)
            /\ run' = Recorded(r, operation)
            /\ ui' = Shown([ui EXCEPT !.debounceTimer = <<>>], r.delivered)
    /\ now' = now + 1
    /\ UNCHANGED <<config, issued, anim, cycle, math, streak>>

NextSliders ==
    \/ SliderInput
    \/ DebounceTimer

SpecSliders == InitPanel /\ [][NextSliders]_vars

NextPanel ==
    \/ UpdateVector
    \/ Improve
    \/ Undo
    \/ Import
    \/ AnimatorStart
    \/ AnimatorTimer
    \/ AnimatorReset

SpecPanel == InitPanel /\ [][NextPanel]_vars

----------------------------------------------------------------------------
(* Updates and the undos that take them back.  streak.stack holds, for     *)
(* every updateVector or improve call not yet taken back, the vector and   *)
(* the history from before the call; streak.undone holds the entry the     *)
(* last undo() took from the stack, streak.undos counts the undo() calls   *)
(* made since the last update.                                             *)

\* arguments of updateVector: an array, a ComplexityVector, and a value
\* that is neither (the call throws after it has pushed the history entry)
RoundVectorInputs ==
    {[kind |-> "array", data |-> <<80, 40, 60, 30>>],
     [kind |-> "vector", data |-> <<20, 20, 20, 20>>],
     [kind |-> "other", data |-> <<>>]}

\* pillar indices passed to improve
RoundPillarInputs == {0, 3}

\* the stack after one more update: an update that finds the history full
\* drops the oldest entry, which every update not yet taken back then misses
Pushed ==
    LET full == Len(history) >= maxHistory
    IN  Append([i \in 1..Len(streak.stack) |->
                    [streak.stack[i] EXCEPT !.dropped = @ \/ full]],
               [vector |-> vector, history |-> history, dropped |-> full])

RoundUpdateVector ==
    /\ now <= MaxRound
    /\ \E newVector \in RoundVectorInputs, operation \in LabelInputs,
          beh \in BehaviourInputs(observers) :
        LET r == updateVector(Self, newVector, operation, beh, now)
        IN  /\ Install(r.state)
            /\ delivered' = r.delivered
            /\ lastCall' = Call("updateVector", newVector, operation, r.threw, FALSE)
            /\ run' = Recorded(r, operation)
    /\ streak' = [stack |-> Pushed, undone |-> <<>>, undos |-> 0]
    /\ now' = now + 1
    /\ ui' = Shown(ui, delivered')
    /\ UNCHANGED <<config, issued, anim, cycle, math>>

RoundImprove ==
    /\ now <= MaxRound
    /\ \E pillar \in RoundPillarInputs, delta \in DeltaInputs,
          beh \in BehaviourInputs(observers) :
        LET r == improve(Self, pillar, delta, beh, now)
        IN  /\ Install(r.state)
            /\ delivered' = r.delivered
            /\ lastCall' = Call("improve", [kind |-> "pillar", data |-> <<pillar, delta>>],
                                NullLabel, r.threw, FALSE)
            /\ run' = Recorded(r, Label("improve", Keys[pillar + 1], delta))
    /\ streak' = [stack |-> Pushed, undone |-> <<>>, undos |-> 0]
    /\ now' = now + 1
    /\ ui' = Shown(ui, delivered')
    /\ UNCHANGED <<config, issued, anim, cycle, math>>

RoundUndo ==
    /\ now <= MaxRound
    /\ \E beh \in BehaviourInputs(observers) :
        LET r == undo(Self, beh, now)
        IN  /\ Install(r.state)
            /\ delivered' = r.delivered
            /\ lastCall' = Call("undo", NoArg, NullLabel, r.threw, r.returned)
    /\ run' = [run EXCEPT !.valid = FALSE]
    /\ streak' = IF streak.stack = <<>>
                 THEN [stack |-> <<>>, undone |-> <<>>, undos |-> streak.undos + 1]
                 ELSE [stack |-> SubSeq(streak.stack, 1, Len(streak.stack) - 1),
                       undone |-> <<streak.stack[Len(streak.stack)]>>,
                       undos |-> streak.undos + 1]
    /\ now' = now + 1
    /\ ui' = Shown(ui, delivered')
    /\ UNCHANGED <<config, issued, anim, cycle, math>>

NextUndo ==
    \/ RoundUpdateVector
    \/ RoundImprove
    \/ RoundUndo

SpecUndo == Init /\ [][NextUndo]_vars

----------------------------------------------------------------------------
(* Vocabulary of the properties *)

\* the exported part of a history entry
Snapshot(e) ==
    [vector |-> e.vector, operation |-> e.operation, timestamp |-> e.timestamp]

Snapshots(h) == [i \in 1..Len(h) |-> Snapshot(h[i])]

LastN(q, n) == IF n >= Len(q) THEN q ELSE SubSeq(q, Len(q) - n + 1, Len(q))

\* the call c ran a notification fan-out
Notified(c) ==
    /\ c.op \in {"updateVector", "improve", "reset", "undo", "updateWeights",
                 "updateDeltas", "import", "importExported", "importIntoFresh",
                 "handleSliderChange"}
    /\ ~c.threw
    /\ (c.op = "undo" => c.returned)

\* the callbacks invoked by a fan-out, in order
Invoked(d) == [i \in 1..Len(d) |-> d[i].observer]

Occurrences(q, x) == Cardinality({i \in 1..Len(q) : q[i] = x})

\* p can be obtained from q by deleting elements
RECURSIVE IsSubsequence(_, _)
IsSubsequence(p, q) ==
    IF p = <<>> THEN TRUE
    ELSE IF q = <<>> THEN FALSE
    ELSE IF p[1] = q[1] THEN IsSubsequence(Tail(p), Tail(q))
    ELSE IsSubsequence(p, Tail(q))

\* x is a number in [0,1]
InUnitInterval(x) == x \in 0..One

\* v has exactly four components, each a number in [0,1]
InUnitCube(v) ==
    /\ DOMAIN v = 1..4
    /\ \A i \in 1..4 : InUnitInterval(v[i])

\* the animator has applied its five steps in order since start(), each to
\* the vector the step before had left, with the deltas of the state as
\* they are now
UninterruptedRun ==
    /\ Len(anim.trail) = Len(steps)
    /\ \A i \in 1..Len(anim.trail) :
          /\ anim.trail[i].step = i - 1
          /\ anim.trail[i].deltas = deltas
          /\ anim.trail[i].before =
                IF i = 1 THEN anim.initialState ELSE anim.trail[i - 1].after

\* q without the elements equal to x
Without(q, x) ==
    LET Other(e) == e # x
    IN  SelectSeq(q, Other)

\* a value updateVector accepts by its contract: a vector object, or an
\* array of four numbers in [0,1]
Recognized(v) ==
    \/ v.kind = "vector"
    \/ v.kind = "array" /\ Len(v.data) = 4 /\ validate(v.data)

\* a payload import can parse into valid vectors
Parseable(data) ==
    /\ Len(data.vector) = 4 /\ validate(data.vector)
    /\ data.hasHistory =>
          \A i \in 1..Len(data.history) :
              Len(data.history[i].vector) = 4 /\ validate(data.history[i].vector)

----------------------------------------------------------------------------
(* Claims *)

\* C1: in every reachable state the number of history entries is at most
\* maxHistory.
C1_HistoryWithinMax == Len(history) <= maxHistory

\* C2: after n >= config.maxHistory updateVector calls on the empty history
\* of a new state, the history holds exactly config.maxHistory entries, the
\* snapshots of the most recent calls in their order.
C2_KeepsMostRecent ==
    (run.valid /\ Len(run.snaps) >= config.maxHistory)
        => Snapshots(history) = LastN(run.snaps, config.maxHistory)

\* C3: a successful updateVector(newVector, label) appends one history entry
\* holding the vector that was current before the call and the given label,
\* makes newVector the current vector, adds exactly 1 to the operation
\* counter, and notifies every observer, in order, with a vectorUpdate event
\* that carries the new vector and the label.
C3_UpdateVectorEffect ==
    [][(lastCall'.op = "updateVector" /\ ~lastCall'.threw /\ Recognized(lastCall'.arg))
        => /\ Len(history') >= 1
           /\ Snapshot(history'[Len(history')]) =
                 [vector |-> vector, operation |-> lastCall'.label, timestamp |-> now]
           /\ SubSeq(history', 1, Len(history') - 1) \in {history, LastN(history, Len(history) - 1)}
           /\ vector' = lastCall'.arg.data
           /\ operationCount' = operationCount + 1
           /\ Invoked(delivered') = observers
           /\ \A i \in 1..Len(delivered') :
                 /\ delivered'[i].update.type = "vectorUpdate"
                 /\ delivered'[i].update.vector = lastCall'.arg.data
                 /\ delivered'[i].update.operation = lastCall'.label
      ]_vars

\* C4: updateVector with a value that is not a recognized vector
\* representation throws and changes nothing: current vector, history and
\* operation counter are as before and no observer is notified.
C4_RejectedUpdateChangesNothing ==
    [][(lastCall'.op = "updateVector" /\ ~Recognized(lastCall'.arg))
        => /\ lastCall'.threw
           /\ vector' = vector
           /\ history' = history
           /\ operationCount' = operationCount
           /\ delivered' = <<>>
      ]_vars

\* C5: import of a payload that cannot be parsed into valid vectors throws
\* and leaves current vector, weights, deltas, history and operation counter
\* as they were.
C5_RejectedImportChangesNothing ==
    [][(lastCall'.op = "import" /\ ~Parseable(lastCall'.arg.data))
        => /\ lastCall'.threw
           /\ vector' = vector
           /\ weights' = weights
           /\ deltas' = deltas
           /\ history' = history
           /\ operationCount' = operationCount
      ]_vars

\* C6: undo() on a non-empty history removes the most recent entry and
\* leaves the others as they were, makes that entry's vector the current
\* vector, adds 1 to the operation counter, runs the fan-out with an undo
\* event carrying the restored vector, and returns true.
C6_UndoRestoresLast ==
    [][(lastCall'.op = "undo" /\ Len(history) > 0)
        => /\ lastCall'.returned
           /\ ~lastCall'.threw
           /\ history' = SubSeq(history, 1, Len(history) - 1)
           /\ vector' = history[Len(history)].vector
           /\ operationCount' = operationCount + 1
           /\ (observers # <<>> => delivered' # <<>>)
           /\ \A i \in 1..Len(delivered') :
                 /\ delivered'[i].update.type = "undo"
                 /\ delivered'[i].update.vector = vector'
           /\ (\A i \in 1..Len(delivered') : delivered'[i].outcome # "unsubscribe")
                 => Invoked(delivered') = observers
      ]_vars

C6_Witness ==
    /\ lastCall.op = "undo"
    /\ lastCall.returned
    /\ delivered # <<>>

\* C7: undo() on an empty history returns false and changes nothing:
\* current vector, history and operation counter stay and no observer is
\* invoked.
C7_UndoOnEmptyIsNoOp ==
    [][(lastCall'.op = "undo" /\ Len(history) = 0)
        => /\ ~lastCall'.returned
           /\ ~lastCall'.threw
           /\ vector' = vector
           /\ history' = history
           /\ operationCount' = operationCount
           /\ observers' = observers
           /\ delivered' = <<>>
      ]_vars

C7_Witness ==
    /\ lastCall.op = "undo"
    /\ ~lastCall.returned
    /\ observers # <<>>
    /\ history = <<>>

\* C8: importing a state's own export, into the same state or into a new
\* one, succeeds and yields the same current vector, weights, deltas and
\* history snapshots (vector, label, timestamp, in order); import itself
\* removes and adds no observer registration.
C8_ExportImportRoundTrip ==
    [][(lastCall'.op \in {"importExported", "importIntoFresh"})
        => /\ ~lastCall'.threw
           /\ vector' = vector
           /\ weights' = weights
           /\ deltas' = deltas
           /\ Snapshots(history') = Snapshots(history)
           /\ (lastCall'.op = "importIntoFresh" => observers' = <<>>)
           /\ (/\ lastCall'.op = "importExported"
               /\ \A i \in 1..Len(delivered') : delivered'[i].outcome # "unsubscribe")
                 => observers' = observers
      ]_vars

C8_Witness ==
    /\ lastCall.op = "importExported"
    /\ Len(history) >= 1
    /\ weights # DEFAULT_WEIGHTS
    /\ vector # DEFAULT_VECTOR

\* C9: when an observer is invoked the change is complete: the state it is
\* handed already has the final vector, history, counter, weights and
\* deltas of the call, and for a vectorUpdate event the current vector is
\* the event's vector, the last history entry is the previous vector, and
\* the operation counter is already incremented.
C9_ObserversSeeCommittedState ==
    [][\A i \in 1..Len(delivered') :
          LET d == delivered'[i]
          IN  /\ d.seen.vector = vector'
              /\ d.seen.history = history'
              /\ d.seen.operationCount = operationCount'
              /\ d.seen.weights = weights'
              /\ d.seen.deltas = deltas'
              /\ d.update.type = "vectorUpdate"
                    => /\ d.seen.vector = d.update.vector
                       /\ d.seen.history # <<>>
                       /\ d.seen.history[Len(d.seen.history)].vector = vector
                       /\ d.seen.operationCount =
                             (IF lastCall'.op = "reset" THEN 0 ELSE operationCount) + 1
      ]_vars

C9_Witness ==
    /\ Len(delivered) >= 2
    /\ delivered[2].update.type = "vectorUpdate"

\* C10: in every notification each registration that exists when the
\* fan-out begins and still exists when it ends is invoked exactly once, and
\* the invocations follow subscription order.
C10_EveryObserverOnceInOrder ==
    [][Notified(lastCall')
        => /\ IsSubsequence(Invoked(delivered'), observers)
           /\ \A o \in Callbacks :
                 /\ Occurrences(Invoked(delivered'), o) >= Occurrences(observers', o)
                 /\ Occurrences(Invoked(delivered'), o) <= Occurrences(observers, o)
      ]_vars

\* C11: an observer that throws during a notification does not stop the
\* fan-out and its exception does not leave the notifying method: every
\* other registered observer is still invoked, in order, the method does
\* not throw, and the state after the fan-out is the state the fan-out
\* would have left had no observer thrown.
C11_ThrowingObserverIsContained ==
    [][/\ \A beh \in BehaviourInputs(observers) :
             (\A o \in Callbacks : beh[o] # "unsubscribe")
                => LET update == Event("manualUpdate", vector, UndefinedLabel, now)
                       r == notify(Self, update, beh)
                       q == notify(Self, update, [o \in Callbacks |-> "return"])
                   IN  /\ ~r.threw
                       /\ r.state = q.state
                       /\ Invoked(r.delivered) = Invoked(q.delivered)
       /\ (/\ Notified(lastCall')
           /\ \A i \in 1..Len(delivered') : delivered'[i].outcome # "unsubscribe")
             => /\ Invoked(delivered') = observers'
                /\ ~lastCall'.threw
                /\ lastCall'.op # "importIntoFresh"
                      => /\ observers' = observers
                         /\ registrations' = registrations
      ]_vars

C11_Witness ==
    /\ Notified(lastCall)
    /\ Len(delivered) >= 2
    /\ delivered[1].outcome = "throw"
    /\ delivered[2].outcome = "return"

\* C12: a call of an unsubscribe function cancels exactly the registration
\* whose subscribe call returned it and leaves every other registration,
\* also one of the same callback, in place and in order; a call made when
\* that registration is already cancelled changes nothing.
C12_UnsubscribeCancelsOwnRegistration ==
    [][lastCall'.op = "unsubscribe"
        => LET id == lastCall'.arg.data[2]
           IN  /\ registrations' = Without(registrations, id)
               /\ Len(observers') = Len(registrations')
      ]_vars

\* C13: when reset(initial) has returned, the current vector is the
\* supplied one, the history is empty and the operation counter is 0 (so an
\* undo() that follows returns false).
C13_ResetClearsHistoryAndCounter ==
    (lastCall.op = "reset" /\ ~lastCall.threw)
        => /\ vector = lastCall.arg.data
           /\ history = <<>>
           /\ operationCount = 0

\* C14: the operation counter never decreases across updateVector, improve,
\* undo, reset, import, updateWeights and updateDeltas.
C14_CounterNeverDecreases ==
    [][lastCall'.op \in {"updateVector", "improve", "undo", "reset", "import",
                         "importExported", "importIntoFresh", "updateWeights",
                         "updateDeltas"}
        => operationCount' >= operationCount
      ]_vars

\* C14, amended: the operation counter never decreases across updateVector,
\* improve, undo, updateWeights, updateDeltas, a slider edit, and an import
\* of the state's own export; reset restarts it (it is at most 1 when reset
\* is over) and an import that succeeds on a foreign payload replaces it
\* with the payload's count, 0 when it carries none.
C14_CounterNeverDecreasesButRestarts ==
    [][/\ lastCall'.op \in {"updateVector", "improve", "undo", "updateWeights",
                            "updateDeltas", "handleSliderChange",
                            "importExported", "importIntoFresh"}
             => operationCount' >= operationCount
       /\ lastCall'.op = "reset"
             => operationCount' \in {0, 1}
       /\ lastCall'.op = "import"
             => operationCount' =
                   IF lastCall'.threw THEN operationCount
                   ELSE IF lastCall'.arg.data.hasMetadata
                        THEN lastCall'.arg.data.metadata.operationCount
                        ELSE 0
      ]_vars

C14_Witness ==
    /\ lastCall.op = "undo"
    /\ lastCall.returned
    /\ operationCount >= 2

\* C15: in every reachable state the current vector and every history
\* snapshot have exactly four numeric components in [0,1]; a construction
\* or a keyed set with a component that is not a number or lies outside
\* [0,1] fails instead of producing such a vector, and one that succeeds
\* produces a vector within the bounds.
C15_VectorsStayInUnitCube ==
    /\ InUnitCube(vector)
    /\ \A i \in 1..Len(history) : InUnitCube(history[i].vector)
    /\ \A args \in ConstructionInputs :
          LET made == NewComplexityVector(args)
          IN  /\ made.ok => InUnitCube(made.data)
              /\ (\E i \in 1..Len(args) : i <= 4 /\ ~InUnitInterval(args[i]))
                    => ~made.ok
    /\ \A i \in 1..4, value \in ValueInputs :
          LET r == set(vector, Keys[i], value)
          IN  /\ r.ok => InUnitCube(r.data) /\ r.data[i] = value
              /\ ~InUnitInterval(value) => ~r.ok /\ r.data = vector

C15_Witness ==
    /\ lastCall.op = "handleSliderChange"
    /\ lastCall.threw
    /\ ~InUnitCube(lastCall.arg.data)
    /\ Len(history) >= 1

\* C16: after updateWeights(w) with an array w of four non-negative numbers
\* the stored weights sum to 1 and are proportional to w, and the observers
\* were sent a weightsUpdate event; with anything else the call throws.
C16_WeightsRenormalized ==
    lastCall.op = "updateWeights"
        => LET w == lastCall.arg
               wellFormed == /\ w.kind = "array"
                             /\ Len(w.data) = 4
                             /\ \A i \in 1..4 : w.data[i] # NotANumber /\ w.data[i] >= 0
           IN  IF wellFormed
               THEN /\ ~lastCall.threw
                    /\ \A i \in 1..4 : weights.num[i] # NotANumber
                    /\ weights.den > 0
                    /\ SumSeq(weights.num) = weights.den
                    /\ \A i \in 1..4 :
                          weights.num[i] * SumSeq(w.data) = w.data[i] * weights.den
                    /\ \A i \in 1..Len(delivered) :
                          delivered[i].update.type = "weightsUpdate"
               ELSE /\ lastCall.threw
                    /\ delivered = <<>>

\* C17: an unknown dimension fails and mutates nothing:
\* ComplexityMath.applyImprovement with a key that names no dimension throws
\* and leaves its argument as it was, and ComplexityState.improve with an
\* index outside 0..3 throws and leaves current vector, history and
\* operation counter unchanged, with no observer notified.
C17_UnknownDimensionChangesNothing ==
    [][/\ \A key \in {"entropy", "", "0"} :
             LET r == applyImprovement(vector, key, 20)
             IN  ~r.ok /\ r.data = vector
       /\ (lastCall'.op = "improve" /\ lastCall'.arg.data[1] \notin 0..3)
             => /\ lastCall'.threw
                /\ vector' = vector
                /\ history' = history
                /\ operationCount' = operationCount
                /\ delivered' = <<>>
      ]_vars

\* C18: for every valid initial vector and every four deltas
\* generateCycle(initial, deltas) succeeds and returns six states and five
\* operation labels; the first and the last state equal initial (under
\* equals), each of the four states between differs from its predecessor
\* in its own dimension only, by the delta clamped to [0,1]; the argument
\* initial is not modified.
C18_CycleReturnsToInitial ==
    cycle.called
        => LET r == cycle.result
               ds == <<cycle.deltas.alg, cycle.deltas.info, cycle.deltas.dyn,
                       cycle.deltas.geom>>
           IN  /\ r.ok
               /\ Len(r.states) = 6
               /\ Len(r.operations) = 5
               /\ equals(r.states[1], cycle.initial)
               /\ equals(r.states[6], cycle.initial)
               /\ \A k \in 1..4 :
                     /\ InUnitCube(r.states[k + 1])
                     /\ \A i \in 1..4 :
                           r.states[k + 1][i] =
                              IF i = k
                              THEN Clamped(r.states[k][i] + ds[k])
                              ELSE r.states[k][i]
               /\ r.initial = cycle.initial

C18_Witness ==
    /\ cycle.called
    /\ cycle.result.ok
    /\ ~equals(cycle.result.states[5], cycle.initial)
    /\ \E i \in 1..4 : cycle.result.states[5][i] = One

\* C19: an uninterrupted CycleAnimator run started at the vector v0 takes
\* the state's vector through the states 1..5 of
\* generateCycle(v0, state.deltas), in that order.
C19_AnimatorFollowsGeneratedCycle ==
    UninterruptedRun
        => [i \in 1..5 |-> anim.trail[i].after] =
              SubSeq(generateCycle(anim.initialState, deltas).states, 2, 6)

\* C20: the animated cycle is halted between steps and resumes from scratch
\* only: while the animator is stopped a timer that fires applies no step
\* and changes nothing in the state, and no step is applied until start()
\* is called; every start() that is accepted captures the vector of that
\* moment as the starting vector and applies the first step of the cycle
\* to it at once.
C20_HaltedRunResumesFromScratch ==
    [][/\ (~anim.isAnimating /\ lastCall'.op # "start")
             => /\ anim'.trail = anim.trail
                /\ ~anim'.isAnimating
       /\ (~anim.isAnimating /\ lastCall'.op = "animateStep")
             => /\ vector' = vector
                /\ history' = history
                /\ operationCount' = operationCount
                /\ delivered' = <<>>
       /\ (~anim.isAnimating /\ lastCall'.op = "start")
             => /\ anim'.isAnimating
                /\ anim'.initialState = vector
                /\ anim'.currentStep = 1
                /\ Len(anim'.trail) = 1
                /\ anim'.trail[1].step = 0
                /\ anim'.trail[1].before = vector
                /\ vector' = [vector EXCEPT ![1] = Clamped(@ + steps[1].delta)]
      ]_vars

C20_Witness ==
    /\ lastCall.op = "start"
    /\ anim.starts = 2
    /\ anim.isAnimating
    /\ anim.currentStep = 1
    /\ anim.initialState # DEFAULT_VECTOR
    /\ anim.timers >= 2


\* the sum of the weights is 1, within EPSILON
SumsToOne(w) == Abs(SumSeq(w.num) - w.den) * PerEpsilon <= w.den

\* sum(v_i * w_i) / sum(w_i), the division left out when the weights sum to 1
WeightedAverage(v, w) ==
    [n |-> SumSeq([i \in 1..Len(v) |-> v[i] * w.num[i]]),
     d |-> IF SumsToOne(w) THEN w.den ELSE SumSeq(w.num)]

\* C21: for a valid vector v and weights w with a non-zero sum,
\* computeScalarAverage(v, w) and getScalar(v, w) both return
\* sum(v_i * w_i) / sum(w_i), weights that already sum to 1 being used as
\* given, so that the two agree; equal weights on [0.8, 0.4, 0.6, 0.3]
\* give 0.525.
C21_ScalarIsRenormalizedDotProduct ==
    (math.args = "scalar" /\ SumSeq(math.weights.num) # 0)
        => /\ "computeScalarAverage" \in math.called
                => math.average = WeightedAverage(math.vector, math.weights)
           /\ "getScalar" \in math.called
                => math.scalar = WeightedAverage(math.vector, math.weights)
           /\ math.called = {"computeScalarAverage", "getScalar"}
                => math.average = math.scalar
           /\ ( /\ "computeScalarAverage" \in math.called
                /\ math.vector = <<80, 40, 60, 30>>
                /\ math.weights = DEFAULT_WEIGHTS )
                => math.average.n * 1000 = 525 * One * math.average.d

C21_Witness ==
    /\ math.args = "scalar"
    /\ math.called = {"computeScalarAverage", "getScalar"}
    /\ math.vector = <<80, 40, 60, 30>>
    /\ math.weights = [num |-> <<2, 1, 1, 0>>, den |-> 1]
    /\ math.average = [n |-> 260, d |-> 4]
    /\ math.scalar = math.average


\* the raw deltas after - before of the call
RawDelta == [i \in 1..4 |-> math.after[i] - math.before[i]]

\* the scalar delta of the call, as a fraction of hundredths: the weighted
\* average of the raw deltas
ScalarChange ==
    WeightedAverage(RawDelta, IF math.weights = NullWeights
                              THEN DEFAULT_WEIGHTS ELSE math.weights)

\* the dimensions the statement calls lost
Lost ==
    {i \in 1..4 :
        /\ RawDelta[i] > 0
        /\ \/ Abs(ScalarChange.n) * PerThreshold < Abs(ScalarChange.d) * One
           \/ ScalarChange.n * ScalarChange.d < 0}

\* C22: calculateSignalLoss flags a dimension exactly when its raw delta is
\* positive and the scalar delta is below 0.01 in absolute value or
\* negative; byPillar holds exactly the flagged dimensions with their raw
\* deltas, total is their sum, and a dimension whose raw delta is not
\* positive is never flagged.
C22_LostExactlyWhenImprovedAndScalarFlatOrFalling ==
    "calculateSignalLoss" \in math.called
        => /\ DOMAIN math.loss.byPillar = {Keys[i] : i \in Lost}
           /\ \A i \in Lost : math.loss.byPillar[Keys[i]] = RawDelta[i]
           /\ math.loss.total
                = SumSeq([i \in 1..4 |-> IF i \in Lost THEN RawDelta[i] ELSE 0])
           /\ \A i \in 1..4 :
                RawDelta[i] <= 0 => Keys[i] \notin DOMAIN math.loss.byPillar

C22_Witness ==
    /\ "calculateSignalLoss" \in math.called
    /\ math.before = <<80, 40, 60, 30>>
    /\ math.after = <<60, 20, 50, 50>>
    /\ math.weights = [num |-> <<6, 2, 1, 1>>, den |-> 10]
    /\ DOMAIN math.loss.byPillar = {"geom"}
    /\ math.loss.byPillar["geom"] = 20
    /\ math.loss.total = 20
    /\ math.loss.isSignalLost

\* the rules of the loss type, in the order of the statement
LossRules ==
    LET hasPositive == \E i \in 1..4 : RawDelta[i] > 0
        hasNegative == \E i \in 1..4 : RawDelta[i] < 0
        nearZero == Abs(ScalarChange.n) * PerEpsilon < Abs(ScalarChange.d) * One
        farFromZero == Abs(ScalarChange.n) * PerEpsilon > Abs(ScalarChange.d) * One
        falling == ScalarChange.n * ScalarChange.d < 0
        squares == SumSeq([i \in 1..4 |-> RawDelta[i] * RawDelta[i]])
    IN  <<[type |-> "cancellation", holds |-> hasPositive /\ hasNegative /\ nearZero],
          [type |-> "inversion", holds |-> hasPositive /\ falling /\ farFromZero],
          [type |-> "invisibility", holds |-> hasPositive /\ nearZero],
          [type |-> "compression",
           holds |-> /\ farFromZero
                     /\ 4 * ScalarChange.n * ScalarChange.n
                          < squares * ScalarChange.d * ScalarChange.d]>>

\* C23: the loss type is that of the first rule that matches, in the order
\* cancellation, inversion, invisibility, compression, and none when no
\* rule matches; [0.5,0.5,0.5,0.5] -> [0.65,0.35,0.5,0.5] with equal weights
\* is a cancellation.
C23_LossTypeIsFirstMatchingRule ==
    "calculateSignalLoss" \in math.called
        => LET matching == {k \in 1..4 : LossRules[k].holds}
           IN  /\ matching = {} => math.loss.lossType = "none"
               /\ \A k \in matching :
                    (\A j \in matching : k <= j)
                        => math.loss.lossType = LossRules[k].type
               /\ ( /\ math.before = <<50, 50, 50, 50>>
                    /\ math.after = <<65, 35, 50, 50>>
                    /\ math.weights = NullWeights )
                    => math.loss.lossType = "cancellation"

\* a call for which both the inversion and the compression rule hold
C23_Witness ==
    /\ "calculateSignalLoss" \in math.called
    /\ math.before = <<50, 50, 50, 50>>
    /\ math.after = <<60, 20, 50, 50>>
    /\ math.weights = NullWeights
    /\ LossRules[2].holds
    /\ LossRules[4].holds
    /\ math.loss.lossType = "inversion"

\* one dimension improves, the others are unchanged and the scalar rises by
\* at least 0.01
OnlyImproved(i) ==
    /\ RawDelta[i] > 0
    /\ \A j \in 1..4 : j # i => RawDelta[j] = 0
    /\ ScalarChange.n * ScalarChange.d > 0
    /\ Abs(ScalarChange.n) * PerThreshold >= Abs(ScalarChange.d) * One

\* C24, as stated: when one dimension improves, the others are unchanged
\* and the scalar rises by at least 0.01, no dimension is flagged (total 0,
\* isSignalLost false) and the loss type is none.
C24_ImprovementSeenByScalarIsNoLoss ==
    ("calculateSignalLoss" \in math.called /\ \E i \in 1..4 : OnlyImproved(i))
        => /\ DOMAIN math.loss.byPillar = {}
           /\ math.loss.total = 0
           /\ ~math.loss.isSignalLost
           /\ math.loss.lossType = "none"

\* C24, amended: in that case no dimension is flagged (total 0,
\* isSignalLost false); the loss type is compression when the normalized
\* weight of the improved dimension is below one half, and none when it is
\* above one half.
C24_ImprovementSeenByScalarIsNotFlagged ==
    "calculateSignalLoss" \in math.called
        => \A i \in 1..4 :
             OnlyImproved(i)
                => /\ DOMAIN math.loss.byPillar = {}
                   /\ math.loss.total = 0
                   /\ ~math.loss.isSignalLost
                   /\ 2 * Abs(ScalarChange.n) < RawDelta[i] * Abs(ScalarChange.d)
                        => math.loss.lossType = "compression"
                   /\ 2 * Abs(ScalarChange.n) > RawDelta[i] * Abs(ScalarChange.d)
                        => math.loss.lossType = "none"

\* the example of the statement: scalar delta 0.05, half the magnitude 0.1
C24_Witness ==
    /\ "calculateSignalLoss" \in math.called
    /\ math.before = <<50, 50, 50, 50>>
    /\ math.after = <<70, 50, 50, 50>>
    /\ math.weights = NullWeights
    /\ OnlyImproved(1)
    /\ math.loss.scalarChange = [n |-> 20, d |-> 4]
    /\ math.loss.total = 0
    /\ math.loss.lossType = "compression"


\* a dominates b: every component of a is at least that of b, within
\* EPSILON, and one is greater by more than EPSILON
Dominating(a, b) ==
    /\ \A i \in 1..4 : a[i] >= b[i] - FineEpsilon
    /\ \E i \in 1..4 : a[i] > b[i] + FineEpsilon

\* the positions of the list that no other position dominates
Undominated(l) ==
    {i \in 1..Len(l) : \A j \in 1..Len(l) : j # i => ~Dominating(l[j], l[i])}

C30_FrontierOfNonEmptyListIsNonEmpty ==
    ("computeParetoFrontier" \in math.called /\ math.states # <<>>)
        => math.frontier # <<>>


\* C26: whatever the order of start(), stop(), reset() and the timer
\* callbacks of the CycleAnimator, at most one animation step is pending.
C26_AtMostOnePendingStep ==
    anim.timers <= 1


\* C27: once the debounce delay has passed with no further input, the
\* vector of the state holds, for every slider that was moved, the last
\* value entered on it.
C27_NoSliderInputIsLost ==
    ui.debounceTimer = <<>>
        => \A i \in 1..4 : ui.entered[i] # Null => vector[i] = ui.entered[i]

\* C28: after the observers have been notified of a change of the current
\* vector, the sliders of the InputPanel and the vector the VectorDisplay
\* rendered last both equal the current vector of the state.
C28_UIShowsTheCurrentVector ==
    ( /\ lastCall.op \in {"updateVector", "improve", "undo", "import",
                          "start", "animateStep", "resetAnimator"}
      /\ Invoked(delivered) = <<PanelCallback, DisplayCallback>> )
        => /\ ui.sliders = toArray(vector)
           /\ ui.rendered = toArray(vector)


\* C29, as stated: k >= 1 updateVector/improve calls followed by k undo()
\* calls: every undo returns true, and it brings back the vector and the
\* history from before the update it takes back.
C29_UndoInvertsUpdates ==
    (lastCall.op = "undo" /\ streak.undone # <<>>)
        => /\ lastCall.returned
           /\ vector = streak.undone[1].vector
           /\ history = streak.undone[1].history

\* C29, amended: the same, provided the update that is taken back and the
\* updates made after it found the history below maxHistory, so that no
\* entry was dropped.
C29_UndoInvertsUpdatesWithinCapacity ==
    ( /\ lastCall.op = "undo"
      /\ streak.undone # <<>>
      /\ ~streak.undone[1].dropped )
        => /\ lastCall.returned
           /\ vector = streak.undone[1].vector
           /\ history = streak.undone[1].history

\* two updates taken back by two undos
C29_Witness ==
    /\ lastCall.op = "undo"
    /\ lastCall.returned
    /\ now = 5
    /\ streak.undos = 2
    /\ streak.stack = <<>>
    /\ streak.undone # <<>>
    /\ streak.undone[1].history = <<>>
    /\ ~streak.undone[1].dropped
    /\ history = <<>>
    /\ vector = DEFAULT_VECTOR
    /\ operationCount = 4

====
